---- MODULE Spec2Model ----
(***************************************************************************)
(* A model of the transport layer of go-genai: the unary and streaming     *)
(* request path, response deserialization, the chunked uploader and the    *)
(* event-stream decoder (api_client.go, kept here as src/unnamed/part_001).*)
(*                                                                         *)
(* Spec        the request path and the chunked uploader                   *)
(* SpecStream  one iteration of iterateResponseStream over a bufio.Scanner *)
(* SpecConnect Live.Connect for every backend, model name and config       *)
(* SpecLive    a realtime session: Connect, Send, Receive, Close (live.go) *)
(***************************************************************************)
EXTENDS Integers, Sequences, FiniteSets, TLC

VARIABLES
    \* ---- request path and uploader (one call at a time) ----
    op,             \* the function being executed: "none" before the call
    pc,             \* the position of the call
    transportCalls, \* how many times client.Do was invoked by this call
    resp,           \* the response doRequest returned last (NoResp: none)
    obtained,       \* response bodies obtained from the transport by this call
    closed,         \* response bodies closed by this call
    ret,            \* what the call returned (kind "none": still running)
    streamLive,     \* output.rc was set: the caller holds a live stream
    uploadSize,     \* uploadFile: the declared total size
    offset,         \* uploadFile: offset
    chunkSize,      \* uploadFile: chunkSize of the current iteration
    uploadCommand,  \* uploadFile: the parts of the uploadCommand string
    respBody,       \* uploadFile: respBody of the last chunk
    requests,       \* uploadFile: the requests handed to the transport, in order
    bytesRead,      \* uploadFile: bytesRead of the last r.Read(buffer)
    readErr,        \* uploadFile: the last r.Read(buffer) returned err != nil
    \* ---- stream decoder ----
    spc,            \* the position of the range-over-func iteration
    wire,           \* bytes the server has still to send
    sent,           \* the frames of the whole response body (history)
    buf,            \* scanner: buf[start:end], the bytes read and not consumed
    bufLen,         \* scanner: len(buf)
    scanErr,        \* scanner: err ("nil", "EOF", "read", "ErrTooLong")
    tokens,         \* the tokens Scan has returned, in order
    items,          \* the items handed to yield, in order
    respRaw,        \* the map handed to responseConverter for the current token
    closeCount,     \* how many times rs.rc.Close() ran
    logged,         \* the error log.Printf reported after the loop ("nil": none)
    stopped,        \* a yield returned false: the consumer stopped pulling
    \* ---- realtime session (live.go) ----
    lpc,            \* the position of Connect, then the state of the session
    backend,        \* clientConfig.Backend: "direct" or "hosted"
    model,          \* Connect's model argument, as path segments
    config,         \* Connect's config argument (NilConfig: nil)
    dialReq,        \* the URL and header Connect builds for Dial
    tokenCalls,     \* how many times TokenSource.Token() was called
    tokenFailed,    \* Token() returned an error
    dials,          \* how many times Dial was called
    connOpen,       \* the socket is open
    clientClosed,   \* Session.Close was called
    writeErr,       \* conn: a write failed (later writes fail too)
    connReadErr,    \* conn: a read failed (later reads fail too)
    socketOut,      \* the frames written on the socket, in order
    served,         \* the frames the server sent, in order (history)
    inbox,          \* the frames the server sent that were not read yet
    received,       \* what each Receive call returned, in order
    sends,          \* what each Send call was given and returned, in order
    \* ---- the caller's context ----
    ctxCancelled,   \* the caller cancelled its context
    \* ---- concurrent calls on one client ----
    clientConfig,   \* ac.clientConfig, the record every call reads
    httpOptions,    \* the HTTPOptions record passed to the calls
    calls,          \* per caller: position, inputs, request, response, result
    \* ---- resource names (transformer.go) ----
    nameArg,        \* the identifier handed to a transform, an `any` value
    nameColl,       \* tResourceName: the collection and its hierarchy depth
    nameOut,        \* the transform applied and what it returned
    \* ---- base URLs (base_url.go) ----
    defaultBaseGeminiURL, \* the package variable: <<>> is nil, <<u>> points to u
    defaultBaseVertexURL, \* the package variable
    environ,        \* the process environment: <<>> unset, <<v>> set to v
    setter,         \* the running SetDefaultBaseURLs call
    getter,         \* the running GetBaseURL call
    \* ---- the split function driven over a byte string ----
    scanner,        \* input, bytes read, bytes consumed, atEOF, tokens, position
    \* ---- createAPIURL applied to a path ----
    urlCall         \* the path, the method and the URL returned

tvars == <<op, pc, transportCalls, resp, obtained, closed, ret, streamLive,
           uploadSize, offset, chunkSize, uploadCommand, respBody, requests,
           bytesRead, readErr>>
svars == <<spc, wire, sent, buf, bufLen, scanErr, tokens,
           items, respRaw, closeCount, logged, stopped>>
lvars == <<lpc, backend, model, config, dialReq, tokenCalls, tokenFailed, dials,
           connOpen, clientClosed, writeErr, connReadErr, socketOut, served,
           inbox, received, sends>>
cvars == <<clientConfig, httpOptions, calls>>
nvars == <<nameArg, nameColl, nameOut>>
bvars == <<defaultBaseGeminiURL, defaultBaseVertexURL, environ, setter, getter>>
kvars == <<scanner>>
uvars == <<urlCall>>
xvars == <<ctxCancelled, cvars, nvars, bvars, kvars, uvars>>
vars == <<op, pc, transportCalls, resp, obtained, closed, ret, streamLive,
          uploadSize, offset, chunkSize, uploadCommand, respBody, requests,
          bytesRead, readErr,
          spc, wire, sent, buf, bufLen, scanErr, tokens,
          items, respRaw, closeCount, logged, stopped,
          lpc, backend, model, config, dialReq, tokenCalls, tokenFailed, dials,
          connOpen, clientClosed, writeErr, connReadErr, socketOut, served,
          inbox, received, sends,
          ctxCancelled, clientConfig, httpOptions, calls,
          nameArg, nameColl, nameOut,
          defaultBaseGeminiURL, defaultBaseVertexURL, environ, setter, getter,
          scanner, urlCall>>

(***************************************************************************)
(* Bounds of the model.                                                    *)
(***************************************************************************)
\* uploadFile is explored for declared sizes up to MaxChunks full chunks.
MaxChunks == 2

\* const maxChunkSize = 8 * 1024 * 1024
maxChunkSize == 8388608

Min(a, b) == IF a < b THEN a ELSE b

(***************************************************************************)
(* JSON documents and Go maps.  A map[string]any is a set of <<key, value>> *)
(* pairs (at most one per key) or nil; a value is known by its JSON kind.   *)
(***************************************************************************)
NilMap == [nil |-> TRUE, kv |-> {}]
MakeMap(pairs) == [nil |-> FALSE, kv |-> pairs]
HasKey(m, k) == \E p \in m.kv : p[1] = k
Get(m, k) == (CHOOSE p \in m.kv : p[1] = k)[2]
MapSet(m, k, v) == [m EXCEPT !.kv = {p \in m.kv : p[1] # k} \cup {<<k, v>>}]

\* A response body: empty, bytes that are not JSON, or a JSON document.  The
\* member "error", when it is a well-formed error object, carries the values
\* code, message and status below.
Body(kind, members) == [kind |-> kind, members |-> members]
ErrObject == [code |-> 429, message |-> "quota exceeded", status |-> "RESOURCE_EXHAUSTED"]
Bodies ==
    { Body("empty", {}), Body("garbage", {}), Body("null", {}), Body("array", {}),
      Body("object", {}),
      Body("object", {<<"file", "object">>}),
      Body("object", {<<"file", "string">>}),
      Body("object", {<<"candidates", "array">>}),
      Body("object", {<<"httpHeaders", "string">>, <<"file", "object">>}),
      Body("object", {<<"error", "object">>}),
      Body("object", {<<"error", "null">>}),
      Body("object", {<<"error", "string">>}),
      Body("object", {<<"message", "string">>, <<"code", "number">>}) }
NoBody == Body("empty", {})

BodyLen0(b) == b.kind = "empty"

\* json.Unmarshal(respBody, &output) with output a map[string]any: a JSON
\* object fills the map, JSON null sets the map to nil, every other document
\* and every non-JSON input is an error.
UnmarshalMap(b) ==
    CASE b.kind = "object" -> [ok |-> TRUE, map |-> MakeMap(b.members)]
      [] b.kind = "null" -> [ok |-> TRUE, map |-> NilMap]
      [] OTHER -> [ok |-> FALSE, map |-> MakeMap({})]

\* json.Unmarshal(body, respWithError): ErrorInfo is set only by a member
\* "error" holding an object; JSON null and a null or absent member leave the
\* pointer nil; a member of another type, another document or non-JSON bytes
\* are an error.
UnmarshalRespWithError(b) ==
    LET m == MakeMap(b.members) IN
    CASE b.kind = "null" -> [ok |-> TRUE, ErrorInfo |-> "nil"]
      [] b.kind = "object" /\ ~HasKey(m, "error") -> [ok |-> TRUE, ErrorInfo |-> "nil"]
      [] b.kind = "object" /\ Get(m, "error") = "null" -> [ok |-> TRUE, ErrorInfo |-> "nil"]
      [] b.kind = "object" /\ Get(m, "error") = "object" -> [ok |-> TRUE, ErrorInfo |-> "set"]
      [] OTHER -> [ok |-> FALSE, ErrorInfo |-> "nil"]

(***************************************************************************)
(* Responses and results.                                                  *)
(***************************************************************************)
Statuses == {101, 200, 204, 299, 300, 404, 500}
UploadStatuses == {"active", "final", "cancelled", ""}   \* "": header missing
Responses ==
    [status : Statuses, readOK : BOOLEAN, body : Bodies, uploadStatus : UploadStatuses]
NoResp == [status |-> 0, readOK |-> TRUE, body |-> NoBody, uploadStatus |-> ""]

\* A result: kind is "none" (not returned), "payload", "stream", "file",
\* "error" (a non-nil error value) or "panic" (the call did not return).
Ret(kind, err, code, message, status, payload) ==
    [kind |-> kind, err |-> err, code |-> code, message |-> message,
     status |-> status, payload |-> payload]
NoRet == Ret("none", "", 0, "", "", NilMap)
RetError(err) == Ret("error", err, 0, "", "", NilMap)
RetPanic(err) == Ret("panic", err, 0, "", "", NilMap)
RetAPIError(code, message, status) == Ret("error", "APIError", code, message, status, NilMap)
RetPayload(m) == Ret("payload", "", 0, "", "", m)

httpStatusOk(r) == r.status >= 200 /\ r.status < 300

\* resp.Status, the status line: the code followed by its reason phrase.
StatusText(code) ==
    CASE code = 101 -> "Switching Protocols"
      [] code = 200 -> "OK"
      [] code = 204 -> "No Content"
      [] code = 300 -> "Multiple Choices"
      [] code = 404 -> "Not Found"
      [] code = 500 -> "Internal Server Error"
      [] OTHER -> "status code " \o ToString(code)
StatusLine(r) == ToString(r.status) \o " " \o StatusText(r.status)

\* newAPIError building the error from the status line whatever the body holds.
newAPIError_FromStatusLine(r) ==
    IF ~r.readOK THEN RetError("newAPIError: error reading response body")
    ELSE RetAPIError(r.status, "", StatusLine(r))

newAPIError(r) ==
    IF ~r.readOK THEN RetError("newAPIError: error reading response body")
    ELSE IF ~BodyLen0(r.body) THEN
        LET u == UnmarshalRespWithError(r.body) IN
        IF ~u.ok THEN RetError("newAPIError: unmarshal response to error failed")
        ELSE IF u.ErrorInfo = "nil" THEN RetPanic("nil pointer dereference")
        ELSE RetAPIError(ErrObject.code, ErrObject.message, ErrObject.status)
    ELSE RetAPIError(r.status, "", StatusLine(r))

deserializeUnaryResponse(r) ==
    IF ~httpStatusOk(r) THEN newAPIError(r)
    ELSE IF ~r.readOK THEN RetError("io.ReadAll")
    ELSE LET u == UnmarshalMap(r.body)
             output == IF BodyLen0(r.body) THEN MakeMap({}) ELSE u.map
         IN  IF ~BodyLen0(r.body) /\ ~u.ok
             THEN RetError("deserializeUnaryResponse: error unmarshalling response")
             ELSE IF output.nil THEN RetPanic("assignment to entry in nil map")
             ELSE RetPayload(MapSet(output, "httpHeaders", "resp.Header"))

\* deserializeStreamResponse: the result, and whether output.rc was set.
deserializeStreamResponse(r) ==
    IF ~httpStatusOk(r) THEN newAPIError(r)
    ELSE Ret("stream", "", 0, "", "", NilMap)

(***************************************************************************)
(* The request path: sendRequest, sendStreamRequest.                       *)
(***************************************************************************)
UploadSizes ==
    {0, 1} \cup {k * maxChunkSize + d : k \in 1..MaxChunks, d \in {-1, 0}}
           \cup {k * maxChunkSize + 1 : k \in 1..(MaxChunks - 1)}

TInit ==
    /\ op = "none" /\ pc = "idle" /\ transportCalls = 0 /\ resp = NoResp
    /\ obtained = 0 /\ closed = 0 /\ ret = NoRet /\ streamLive = FALSE
    /\ uploadSize = 0 /\ offset = 0 /\ chunkSize = 0
    /\ uploadCommand = <<>> /\ respBody = NilMap /\ requests = <<>>
    /\ bytesRead = 0 /\ readErr = FALSE

SIdle ==
    /\ spc = "idle" /\ wire = <<>> /\ sent = <<>>
    /\ buf = <<>> /\ bufLen = 0 /\ scanErr = "nil"
    /\ tokens = <<>> /\ items = <<>> /\ respRaw = ""
    /\ closeCount = 0 /\ logged = "nil" /\ stopped = FALSE

\* No session: Connect was not called.
NilConfig == [nil |-> TRUE, generationConfig |-> "nil",
              systemInstruction |-> "nil", tools |-> "nil"]
NoDial == [scheme |-> "", path |-> "", query |-> "", header |-> {}]
SessionIdle ==
    /\ lpc = "unconnected" /\ dialReq = NoDial
    /\ tokenCalls = 0 /\ tokenFailed = FALSE /\ dials = 0
    /\ connOpen = FALSE /\ clientClosed = FALSE
    /\ writeErr = FALSE /\ connReadErr = FALSE
    /\ socketOut = <<>> /\ served = <<>> /\ inbox = <<>>
    /\ received = <<>> /\ sends = <<>>
LIdle == SessionIdle /\ backend = "direct" /\ model = <<>> /\ config = NilConfig

(***************************************************************************)
(* Building a request: createAPIURL, sdkHeader, the merged headers.        *)
(***************************************************************************)
\* An http.Header: the values of each key, in order (<<>>: key absent).
HeaderKeys ==
    {"Content-Type", "x-goog-api-key", "user-agent", "x-goog-api-client",
     "test-header", "X-Goog-Upload-Command", "X-Goog-Upload-Offset",
     "Content-Length"}
NoHeader == [k \in HeaderKeys |-> <<>>]
HeaderSet(h, k, v) == [h EXCEPT ![k] = <<v>>]

\* doMergeHeaders(input, &output): every key of input is written into output,
\* a later merge overwriting the values an earlier one left under that key.
doMergeHeaders(input, output) ==
    [k \in HeaderKeys |-> IF input[k] # <<>> THEN input[k] ELSE output[k]]

\* "google-genai-sdk/<version> gl-go/<runtime version>"
versionHeaderValue == "google-genai-sdk gl-go"

sdkHeader(cfg) ==
    LET h1 == HeaderSet(NoHeader, "Content-Type", "application/json")
        h2 == IF cfg.APIKey # "" THEN HeaderSet(h1, "x-goog-api-key", cfg.APIKey)
              ELSE h1
        h3 == HeaderSet(h2, "user-agent", versionHeaderValue)
    IN  HeaderSet(h3, "x-goog-api-client", versionHeaderValue)

\* strings.Contains(suffix, "/" + seg + "/"): seg stands between two slashes.
ContainsSegment(suffix, seg) ==
    \E i \in 2..(Len(suffix) - 1) : suffix[i] = seg

\* createAPIURL: the URL as <<base, segment, ...>>.
createAPIURL(cfg, suffix, method, opts) ==
    IF cfg.Backend = "hosted"
    THEN LET queryVertexBaseModel ==
                 /\ method = "GET" /\ Len(suffix) >= 3
                 /\ suffix[1] = "publishers" /\ suffix[2] = "google"
                 /\ suffix[3] = "models"
             full == IF ~(Len(suffix) >= 2 /\ suffix[1] = "projects")
                        /\ ~queryVertexBaseModel
                     THEN <<"projects", cfg.Project, "locations", cfg.Location>>
                          \o suffix
                     ELSE suffix
         IN  <<opts.BaseURL, opts.APIVersion>> \o full
    ELSE LET full == IF ~ContainsSegment(suffix, opts.APIVersion)
                     THEN <<opts.APIVersion>> \o suffix
                     ELSE suffix
         IN  <<opts.BaseURL>> \o full

\* The request a call hands to doRequest.  buildRequest: the URL of
\* createAPIURL and the headers of httpOptions, then the SDK's; uploadFile:
\* the upload URL, the same headers, then the three upload headers of a
\* single chunk that is also the last one.
NoReq == [url |-> <<>>, method |-> "", header |-> NoHeader]
CallPath == <<"models", "test-model:generateContent">>
UploadURL == <<"https://test-upload-url.com">>
NewRequest(cfg, opts, f) ==
    LET merged == doMergeHeaders(sdkHeader(cfg), doMergeHeaders(opts.Headers, NoHeader))
        up1 == HeaderSet(merged, "X-Goog-Upload-Command", "upload, finalize")
        up2 == HeaderSet(up1, "X-Goog-Upload-Offset", "0")
    IN  IF f = "uploadFile"
        THEN [url |-> UploadURL, method |-> "POST",
              header |-> HeaderSet(up2, "Content-Length", "1")]
        ELSE [url |-> createAPIURL(cfg, CallPath, "POST", opts), method |-> "POST",
              header |-> merged]

\* uploadFile after the response to its only chunk (uploadSize = 1).
uploadFileOneChunk(r, mapOK) ==
    LET d == deserializeUnaryResponse(r) IN
    IF d.kind = "error" THEN RetError("response body is invalid for chunk")
    ELSE IF d.kind = "panic" THEN d
    ELSE IF r.uploadStatus = "active"
    THEN RetError("All content has been uploaded, but the upload status is not finalized")
    ELSE IF r.uploadStatus # "final"
    THEN RetError("Failed to upload file: Upload status is not finalized")
    ELSE IF ~HasKey(d.payload, "file") \/ Get(d.payload, "file") # "object"
    THEN RetPanic("interface conversion")
    ELSE IF mapOK THEN Ret("file", "", 0, "", "", NilMap) ELSE RetError("mapToStruct")

\* What the function f returns for the response r (NoResp: client.Do failed).
ResultOf(f, r, mapOK) ==
    IF r = NoResp
    THEN RetError(IF f = "uploadFile" THEN "upload request failed"
                  ELSE "doRequest: error sending request")
    ELSE CASE f = "sendRequest" -> deserializeUnaryResponse(r)
           [] f = "sendStreamRequest" -> deserializeStreamResponse(r)
           [] OTHER -> uploadFileOneChunk(r, mapOK)

\* The client's settings, as the tests of the repository set them.
Project == "test-project"
Location == "test-location"
APIKey == "test-api-key"

\* The callers of the concurrent model, the client they share and the
\* responses the server gives them.
NCallers == 2
Callers == 1..NCallers
CallOps == {"sendRequest", "sendStreamRequest", "uploadFile"}
ClientConfigs ==
    { [Backend |-> "direct", APIKey |-> APIKey, Project |-> "", Location |-> ""],
      [Backend |-> "hosted", APIKey |-> "", Project |-> Project, Location |-> Location] }
HTTPOptionsSet ==
    [BaseURL : {"https://test-base-url.com"}, APIVersion : {"test-api-version"},
     Headers : {NoHeader, HeaderSet(NoHeader, "test-header", "test-value")}]
CallResponses ==
    {r \in Responses :
        /\ r.readOK /\ r.status \in {200, 404}
        /\ r.body \in {Body("empty", {}), Body("object", {<<"file", "object">>})}
        /\ r.uploadStatus \in {"active", "final"}}
NoClientConfig == [Backend |-> "direct", APIKey |-> "", Project |-> "", Location |-> ""]
NoHTTPOptions == [BaseURL |-> "", APIVersion |-> "", Headers |-> NoHeader]
NoCall == [pc |-> "idle", f |-> "", cfg0 |-> NoClientConfig, opts0 |-> NoHTTPOptions,
           req |-> NoReq, resp |-> NoResp, mapOK |-> TRUE, ret |-> NoRet]
CIdle ==
    /\ clientConfig = NoClientConfig
    /\ httpOptions = NoHTTPOptions
    /\ calls = [p \in Callers |-> NoCall]

\* An `any` value handed to a transform: a string, given by its segments
\* between slashes (<<>> is the empty string), or a value of another type.
StringValue(segs) == [isString |-> TRUE, s |-> segs]
NotAString == [isString |-> FALSE, s |-> <<>>]
\* What a transform returned: it panicked, or returned (name, err).  again:
\* the transform was applied to a name it had returned.
NameOut(fn, panic, err, name) ==
    [fn |-> fn, panic |-> panic, err |-> err, name |-> name, again |-> FALSE]
NoNameOut == NameOut("", FALSE, FALSE, <<>>)
NIdle ==
    /\ nameArg = NotAString
    /\ nameColl = [collection |-> "", depth |-> 0]
    /\ nameOut = NoNameOut

\* A *string: Nil, or a pointer to a string.
Nil == <<>>
Ptr(v) == <<v>>
EnvNames == {"GOOGLE_GEMINI_BASE_URL", "GOOGLE_VERTEX_BASE_URL"}
NilParams == [nil |-> TRUE, GeminiURL |-> Nil, VertexURL |-> Nil]
\* installed: the arguments of the non-nil calls so far (history).
NoSetter == [pc |-> "idle", params |-> NilParams, calls |-> 0, installed |-> {}]
NoGetter == [pc |-> "idle", vertexai |-> FALSE, nilOptions |-> TRUE, BaseURL |-> "",
             baseURLs |-> NilParams, looked |-> {}, result |-> Nil,
             disturbed |-> FALSE]
\* The package as loaded: both defaults nil.
BLoaded ==
    /\ defaultBaseGeminiURL = Nil /\ defaultBaseVertexURL = Nil
    /\ setter = NoSetter /\ getter = NoGetter
BIdle == BLoaded /\ environ = [n \in EnvNames |-> Nil]

\* The scanner over the input: the buffer holds the bytes read and not yet
\* consumed.
NewScanner(input) ==
    [pc |-> "scan", input |-> input, read |-> 0, consumed |-> 0,
     atEOF |-> FALSE, tokens |-> <<>>]
KIdle == scanner = NewScanner(<<>>)

\* createAPIURL is given a path and a method; url is <<>> until it returned.
NewURLCall(suffix, method) == [suffix |-> suffix, method |-> method, url |-> <<>>]
UIdle == urlCall = NewURLCall(<<>>, "")

\* The caller's context is live; no concurrent calls; no transform applied;
\* no base URL set; nothing to scan; no URL asked for.
XIdle == ctxCancelled = FALSE /\ CIdle /\ NIdle /\ BIdle /\ KIdle /\ UIdle

uploadVarsUnchanged ==
    UNCHANGED <<uploadSize, offset, chunkSize, uploadCommand, respBody, requests,
                bytesRead, readErr>>

\* A caller enters sendRequest or sendStreamRequest.
CallRequest ==
    /\ pc = "idle"
    /\ \E o \in {"sendRequest", "sendStreamRequest"} : op' = o
    /\ pc' = "build"
    /\ UNCHANGED <<transportCalls, resp, obtained, closed, ret, streamLive>>
    /\ uploadVarsUnchanged /\ UNCHANGED <<svars, lvars, xvars>>

\* req, err := buildRequest(...); if err != nil { return err }
buildRequest ==
    /\ pc = "build"
    /\ \E ok \in BOOLEAN :
          IF ok THEN pc' = "do" /\ ret' = ret
          ELSE pc' = "done" /\ ret' = RetError("buildRequest")
    /\ UNCHANGED <<op, transportCalls, resp, obtained, closed, streamLive>>
    /\ uploadVarsUnchanged /\ UNCHANGED <<svars, lvars, xvars>>

\* resp, err := doRequest(ac, req); if err != nil { return err }
doRequest ==
    /\ pc = "do"
    /\ transportCalls' = transportCalls + 1
    /\ \/ /\ pc' = "done"
          /\ ret' = RetError("doRequest: error sending request")
          /\ UNCHANGED <<resp, obtained>>
       \/ /\ \E r \in Responses : resp' = r
          /\ obtained' = obtained + 1
          /\ pc' = "deser"
          /\ ret' = ret
    /\ UNCHANGED <<op, closed, streamLive>>
    /\ uploadVarsUnchanged /\ UNCHANGED <<svars, lvars, xvars>>

\* defer resp.Body.Close(); return deserializeUnaryResponse(resp)
sendRequest ==
    /\ pc = "deser" /\ op = "sendRequest"
    /\ ret' = deserializeUnaryResponse(resp)
    /\ closed' = closed + 1
    /\ pc' = "done"
    /\ UNCHANGED <<op, transportCalls, resp, obtained, streamLive>>
    /\ uploadVarsUnchanged /\ UNCHANGED <<svars, lvars, xvars>>

\* return deserializeStreamResponse(resp, output): the body is left to the
\* iterator, which exists only when output.rc was set.
sendStreamRequest ==
    /\ pc = "deser" /\ op = "sendStreamRequest"
    /\ ret' = deserializeStreamResponse(resp)
    /\ streamLive' = (deserializeStreamResponse(resp).kind = "stream")
    /\ pc' = "done"
    /\ UNCHANGED <<op, transportCalls, resp, obtained, closed>>
    /\ uploadVarsUnchanged /\ UNCHANGED <<svars, lvars, xvars>>

(***************************************************************************)
(* The chunked uploader: uploadFile.  Every return runs the deferred       *)
(* resp.Body.Close() of each response obtained so far.                     *)
(***************************************************************************)
requestVarsUnchanged == UNCHANGED <<op, streamLive>>

\* The header X-Goog-Upload-Command: the parts joined by ", ".
\* size is the length of the body, bytes.NewReader(buffer[:bytesRead]).
Request(off, size, length, command) ==
    [offset |-> off, size |-> size, contentLength |-> length, command |-> command]

CallUpload ==
    /\ pc = "idle"
    /\ op' = "uploadFile"
    /\ \E n \in UploadSizes : uploadSize' = n
    /\ offset' = 0
    /\ uploadCommand' = <<"upload">>
    /\ pc' = "loop"
    /\ UNCHANGED <<transportCalls, resp, obtained, closed, ret, streamLive,
                   chunkSize, respBody, requests, bytesRead, readErr>>
    /\ UNCHANGED <<svars, lvars, xvars>>

\* chunkSize := int64(math.Min(maxChunkSize, float64(uploadSize-offset)))
ChunkSize_IgnoreOffset(total, off) == Min(maxChunkSize, total)
ChunkSize(total, off) == Min(maxChunkSize, total - off)

\* if offset+chunkSize >= uploadSize { uploadCommand += ", finalize" }
Finalizes_Strict(off, size, total) == off + size > total
Finalizes(off, size, total) == off + size >= total

\* What r.Read(buffer) may do with a buffer of size bytes: all of it, fewer
\* bytes with a nil error, or a non-nil error (with or without bytes).
ReadOutcomes(size) ==
    {[n |-> size, err |-> FALSE]}
        \cup {[n |-> k, err |-> FALSE] : k \in {0, size - 1} \cap 0..(size - 1)}
        \cup {[n |-> k, err |-> TRUE] : k \in {0, size}}

\* uploadFileRead without the test of bytesRead against chunkSize: what was
\* read is sent.
uploadFileRead_SendsShortRead ==
    /\ pc = "loop"
    /\ LET size == ChunkSize(uploadSize, offset) IN
       /\ chunkSize' = size
       /\ uploadCommand' = IF Finalizes(offset, size, uploadSize)
                           THEN Append(uploadCommand, "finalize")
                           ELSE uploadCommand
       /\ \E rd \in ReadOutcomes(size) :
             /\ bytesRead' = rd.n /\ readErr' = rd.err
             /\ IF ~rd.err
                THEN pc' = "send" /\ ret' = ret /\ closed' = closed
                ELSE /\ pc' = "done"
                     /\ ret' = RetError("Failed to read bytes from file")
                     /\ closed' = obtained
    /\ UNCHANGED <<transportCalls, resp, obtained, uploadSize, offset, respBody, requests>>
    /\ UNCHANGED <<op, streamLive>> /\ UNCHANGED <<svars, lvars, xvars>>

\* The head of the loop body: chunkSize, uploadCommand, r.Read(buffer) and the
\* two tests of what Read returned.
uploadFileRead ==
    /\ pc = "loop"
    /\ LET size == ChunkSize(uploadSize, offset) IN
       /\ chunkSize' = size
       /\ uploadCommand' = IF Finalizes(offset, size, uploadSize)
                           THEN Append(uploadCommand, "finalize")
                           ELSE uploadCommand
       /\ \E rd \in ReadOutcomes(size) :
             /\ bytesRead' = rd.n /\ readErr' = rd.err
             /\ IF ~rd.err /\ rd.n = size
                THEN pc' = "send" /\ ret' = ret /\ closed' = closed
                ELSE /\ pc' = "done"
                     /\ ret' = RetError(IF rd.err
                                        THEN "Failed to read bytes from file"
                                        ELSE "Failed to read bytes: short read")
                     /\ closed' = obtained
    /\ UNCHANGED <<transportCalls, resp, obtained, uploadSize, offset, respBody, requests>>
    /\ requestVarsUnchanged /\ UNCHANGED <<svars, lvars, xvars>>

\* The rest of the loop body: the request, doRequest, deserializeUnaryResponse,
\* offset += chunkSize and the test of X-Goog-Upload-Status.
uploadFileSend ==
    /\ pc = "send"
    /\ \/ \* http.NewRequestWithContext failed
          /\ pc' = "done"
          /\ ret' = RetError("Failed to create upload request")
          /\ closed' = obtained
          /\ UNCHANGED <<transportCalls, resp, obtained, offset, respBody, requests>>
       \/ \* doRequest failed
          /\ transportCalls' = transportCalls + 1
          /\ requests' = Append(requests, Request(offset, bytesRead, chunkSize, uploadCommand))
          /\ pc' = "done"
          /\ ret' = RetError("upload request failed")
          /\ closed' = obtained
          /\ resp' = NoResp
          /\ UNCHANGED <<obtained, offset, respBody>>
       \/ \* doRequest returned a response
          /\ transportCalls' = transportCalls + 1
          /\ requests' = Append(requests, Request(offset, bytesRead, chunkSize, uploadCommand))
          /\ obtained' = obtained + 1
          /\ \E r \in Responses :
               LET d == deserializeUnaryResponse(r) IN
               /\ resp' = r
               /\ IF d.kind = "error"
                  THEN /\ ret' = RetError("response body is invalid for chunk")
                       /\ pc' = "done" /\ closed' = obtained'
                       /\ UNCHANGED <<offset, respBody>>
                  ELSE IF d.kind = "panic"
                  THEN /\ ret' = d
                       /\ pc' = "done" /\ closed' = obtained'
                       /\ UNCHANGED <<offset, respBody>>
                  ELSE /\ respBody' = d.payload
                       /\ offset' = offset + chunkSize
                       /\ IF r.uploadStatus # "active"
                          THEN pc' = "after" /\ ret' = ret /\ closed' = closed
                          ELSE IF uploadSize <= offset'
                          THEN /\ pc' = "done" /\ closed' = obtained'
                               /\ ret' = RetError("All content has been uploaded, but the upload status is not finalized")
                          ELSE pc' = "loop" /\ ret' = ret /\ closed' = closed
    /\ UNCHANGED <<uploadSize, chunkSize, uploadCommand, bytesRead, readErr>>
    /\ requestVarsUnchanged /\ UNCHANGED <<svars, lvars, xvars>>

\* uploadFileFinish with the final status tested against "active" instead of
\* "final": a terminal status that is not "final" passes.
uploadFileFinish_ActiveTest ==
    /\ pc = "after"
    /\ pc' = "done"
    /\ closed' = obtained
    /\ IF resp = NoResp
       THEN ret' = RetError("Upload request failed. No response received")
       ELSE IF resp.uploadStatus = "active"
       THEN ret' = RetError("Failed to upload file: Upload status is not finalized")
       ELSE IF ~HasKey(respBody, "file") \/ Get(respBody, "file") # "object"
       THEN ret' = RetPanic("interface conversion")
       ELSE \E ok \in BOOLEAN :
              ret' = IF ok THEN Ret("file", "", 0, "", "", NilMap)
                     ELSE RetError("mapToStruct")
    /\ UNCHANGED <<transportCalls, resp, obtained, uploadSize, offset, chunkSize,
                   uploadCommand, respBody, requests, bytesRead, readErr>>
    /\ UNCHANGED <<op, streamLive>> /\ UNCHANGED <<svars, lvars, xvars>>

\* After the loop: the final status, then mapToStruct(respBody["file"].(map[string]any)).
uploadFileFinish ==
    /\ pc = "after"
    /\ pc' = "done"
    /\ closed' = obtained
    /\ IF resp = NoResp
       THEN ret' = RetError("Upload request failed. No response received")
       ELSE IF resp.uploadStatus # "final"
       THEN ret' = RetError("Failed to upload file: Upload status is not finalized")
       ELSE IF ~HasKey(respBody, "file") \/ Get(respBody, "file") # "object"
       THEN ret' = RetPanic("interface conversion")
       ELSE \E ok \in BOOLEAN :
              ret' = IF ok THEN Ret("file", "", 0, "", "", NilMap)
                     ELSE RetError("mapToStruct")
    /\ UNCHANGED <<transportCalls, resp, obtained, uploadSize, offset, chunkSize,
                   uploadCommand, respBody, requests, bytesRead, readErr>>
    /\ requestVarsUnchanged /\ UNCHANGED <<svars, lvars, xvars>>

Init == TInit /\ SIdle /\ LIdle /\ XIdle

Next ==
    \/ CallRequest
    \/ buildRequest
    \/ doRequest
    \/ sendRequest
    \/ sendStreamRequest
    \/ CallUpload
    \/ uploadFileRead
    \/ uploadFileSend
    \/ uploadFileFinish

Spec == Init /\ [][Next]_vars

(***************************************************************************)
(* Transport Executor and Chunked Uploader: the properties.                *)
(***************************************************************************)
Returned == pc = "done"
Last(q) == q[Len(q)]

\* C2: no response body is leaked by the request path: sendRequest has closed
\* the body of every response it obtained when it returns, on every path;
\* sendStreamRequest has closed it when it returns an error, and leaves it
\* open only when it hands a live stream to the caller.
C2_NoBodyLeaked ==
    Returned =>
        /\ op = "sendRequest" => closed = obtained
        /\ op = "sendStreamRequest" =>
              obtained - closed = (IF streamLive /\ ret.kind = "stream" THEN 1 ELSE 0)

\* The part of C2 the code keeps: sendRequest closes every body it obtained.
C2_UnaryBodyClosed ==
    (Returned /\ op = "sendRequest") => closed = obtained

\* C3: deserializeUnaryResponse ends in a payload with a nil error or in a
\* non-nil error; a payload exactly when the status is in 200..299 and the
\* body is empty or a JSON object, the payload holding the body's members
\* plus the headers under httpHeaders; an error for every status outside
\* 200..299, whatever the body.
C3_UnaryOutcome ==
    \A r \in Responses :
        LET d == deserializeUnaryResponse(r) IN
        (Returned /\ op = "sendRequest" /\ resp = r) =>
            /\ ret = d
            /\ d.kind \in {"payload", "error"}
            /\ r.readOK =>
                  (d.kind = "payload" <=>
                     (httpStatusOk(r) /\ r.body.kind \in {"empty", "object"}))
            /\ d.kind = "payload" =>
                  /\ ~d.payload.nil
                  /\ r.body.members \subseteq d.payload.kv
                  /\ <<"httpHeaders", "resp.Header">> \in d.payload.kv
            /\ ~httpStatusOk(r) => d.kind = "error"

\* C4: uploadFile returns a File only if X-Goog-Upload-Status of the last
\* response equals "final"; when the loop ends on a terminal status other than
\* "final", on a missing status header, or on "active" in the response to the
\* chunk that brings offset to uploadSize, it returns an error, and the request
\* of that chunk is the last one sent.
LoopEndedOnStatus ==
    /\ resp # NoResp
    /\ deserializeUnaryResponse(resp).kind = "payload"
    /\ resp.uploadStatus # "active" \/ offset >= uploadSize
C4_FileOnlyWhenFinal ==
    /\ ret.kind = "file" => (Returned /\ op = "uploadFile")
    /\ (Returned /\ op = "uploadFile") =>
          /\ ret.kind = "file" => (resp # NoResp /\ resp.uploadStatus = "final")
          /\ (LoopEndedOnStatus /\ resp.uploadStatus # "final") =>
                /\ ret.kind = "error"
                /\ Len(requests) = transportCalls
                /\ Last(requests).offset + Last(requests).size = offset
          /\ (LoopEndedOnStatus /\ resp.uploadStatus = "active") =>
                Last(requests).offset + Last(requests).size = uploadSize
C4_Witness ==
    /\ Returned /\ op = "uploadFile"
    /\ LoopEndedOnStatus /\ resp.uploadStatus = "active"
    /\ Len(requests) = 2 /\ offset = 2 * maxChunkSize
    /\ ret.kind = "error"

\* C5: no operation retries.  One call of sendRequest or sendStreamRequest
\* invokes the transport at most once, not at all when buildRequest fails,
\* and returns the transport or server failure to the caller; uploadFile
\* sends at most one request per chunk offset, and after a chunk whose
\* request fails (transport error, non-2xx status, unparsable body) it
\* returns an error, that request being the last one sent.
ChunkFailed ==
    /\ requests # <<>>
    /\ resp = NoResp \/ deserializeUnaryResponse(resp).kind # "payload"
TransportOnce ==
    /\ op \in {"sendRequest", "sendStreamRequest"} =>
          /\ transportCalls <= 1
          /\ (Returned /\ ret.err = "buildRequest") => transportCalls = 0
    /\ op = "uploadFile" =>
          /\ Len(requests) = transportCalls
          /\ \A i, j \in 1..Len(requests) :
                i < j => requests[i].offset < requests[j].offset
          /\ (Returned /\ ChunkFailed) => Last(requests).offset = offset
C5_NoRetry ==
    /\ TransportOnce
    /\ (Returned /\ op \in {"sendRequest", "sendStreamRequest"}) =>
          ((transportCalls = 1 /\ (resp = NoResp \/ ~httpStatusOk(resp)))
              => ret.kind = "error")
    /\ (Returned /\ op = "uploadFile" /\ ChunkFailed) => ret.kind = "error"

(***************************************************************************)
(* The requests of uploadFile.                                             *)
(***************************************************************************)
RECURSIVE SentBefore(_)
\* The bytes sent in the requests before the i-th.
SentBefore(i) == IF i <= 1 THEN 0 ELSE SentBefore(i - 1) + requests[i - 1].size

\* ceil(n / maxChunkSize)
Ceil(n) == (n + maxChunkSize - 1) \div maxChunkSize

RequestShape ==
    op = "uploadFile" =>
        \A i \in 1..Len(requests) :
            LET r == requests[i] IN
            /\ r.size = Min(maxChunkSize, uploadSize - r.offset)
            /\ r.contentLength = r.size
            /\ r.offset = SentBefore(i)
            /\ r.offset <= uploadSize
            /\ i > 1 => requests[i - 1].offset < r.offset

\* The source gave every byte and the server answered "active" to every chunk
\* but the last and "final" to the last (the loop goes on only after "active").
Cooperative ==
    /\ op = "uploadFile" /\ pc \in {"after", "done"}
    /\ resp # NoResp /\ resp.uploadStatus = "final"
    /\ offset >= uploadSize

\* C11, as stated: every request carries min(8 MiB, uploadSize - offset) bytes,
\* a Content-Length equal to that and an offset equal to the bytes sent before;
\* offsets strictly increase and never exceed uploadSize; with a cooperative
\* server exactly ceil(uploadSize / 8 MiB) requests are sent.
C11_CeilRequests ==
    /\ RequestShape
    /\ Cooperative => Len(requests) = Ceil(uploadSize)

\* C11, amended: the same, but an upload of zero bytes sends one request (an
\* empty body with the finalize command), not ceil(0 / 8 MiB) = 0 requests.
C11_CeilRequestsOrOne ==
    /\ RequestShape
    /\ Cooperative =>
          Len(requests) = IF uploadSize = 0 THEN 1 ELSE Ceil(uploadSize)

C11_Witness ==
    /\ Cooperative /\ ret.kind = "file"
    /\ uploadSize = 2 * maxChunkSize /\ Len(requests) = 2
    /\ requests[2].offset = maxChunkSize /\ requests[2].size = maxChunkSize

\* C12: the command of every request is "upload" or "upload, finalize"; it is
\* "upload, finalize" exactly when offset + chunkSize >= uploadSize; at most
\* one request finalizes and it is the last request of the call.
C12_UploadCommand ==
    op = "uploadFile" =>
        \A i \in 1..Len(requests) :
            LET r == requests[i] IN
            /\ r.command \in {<<"upload">>, <<"upload", "finalize">>}
            /\ r.command = <<"upload", "finalize">>
                  <=> r.offset + r.contentLength >= uploadSize
            /\ r.command = <<"upload", "finalize">> => i = Len(requests)

C12_Witness ==
    /\ op = "uploadFile" /\ Returned /\ Len(requests) = 2
    /\ requests[1].command = <<"upload">>
    /\ requests[2].command = <<"upload", "finalize">>

\* C13: when r.Read returned fewer bytes than chunkSize, or an error, the call
\* has returned an error, no request was made for the chunk at this offset,
\* and no request ever carried fewer bytes than its chunk size.
C13_ShortReadIsFatal ==
    (op = "uploadFile" /\ (readErr \/ bytesRead # chunkSize)) =>
        /\ Returned /\ ret.kind = "error"
        /\ \A i \in 1..Len(requests) :
              /\ requests[i].offset # offset
              /\ requests[i].size = requests[i].contentLength

C13_Witness ==
    /\ op = "uploadFile" /\ Returned /\ ret.kind = "error"
    /\ ~readErr /\ bytesRead < chunkSize
    /\ Len(requests) = 1 /\ offset = maxChunkSize

(***************************************************************************)
(* The Stream Decoder.  Bytes are symbols: LF and CR are the bytes \n and  *)
(* \r, ":" is the colon, and each other symbol stands for a run of bytes   *)
(* holding none of the three: the word data, the word event, a JSON object *)
(* the conversion function accepts ("{ok}"), a JSON object it rejects      *)
(* ("{bad}"), bytes that are not JSON ("junk").                            *)
(***************************************************************************)
\* The scanner's buffer, scaled: output.r.Buffer(make([]byte, 1024), 268435456).
\* BufSize0 symbols stand for the 1 KiB first buffer, MaxTokenSize symbols for
\* the 256 MiB ceiling.
BufSize0 == 12
MaxTokenSize == 13
\* A response body holds at most MaxFrames frames.
MaxFrames == 3

LF == "\n"
CR == "\r"

\* bytes.Index(data, pat): the 0-based index of the first occurrence, or -1.
Index(data, pat) ==
    LET hits == {i \in 0..(Len(data) - Len(pat)) :
                    SubSeq(data, i + 1, i + Len(pat)) = pat}
    IN  IF hits = {} THEN -1 ELSE CHOOSE i \in hits : \A j \in hits : i <= j

\* data[0:n]
Take(data, n) == SubSeq(data, 1, n)
\* data[n:]
Drop(data, n) == SubSeq(data, n + 1, Len(data))

dropCR(data) ==
    IF Len(data) > 0 /\ data[Len(data)] = CR THEN Take(data, Len(data) - 1) ELSE data

\* The split function: (advance, token); a nil token asks for more data.
NilToken == [nil |-> TRUE, bytes |-> <<>>]
Token(bytes) == [nil |-> FALSE, bytes |-> bytes]
\* scan returning nothing at the end of the input when no delimiter is left:
\* the bytes after the last delimiter are not emitted.
scan_DropsTail(data, atEOF) ==
    IF atEOF /\ Len(data) = 0 THEN [advance |-> 0, token |-> NilToken]
    ELSE IF Index(data, <<LF, LF>>) >= 0
    THEN [advance |-> Index(data, <<LF, LF>>) + 2,
          token |-> Token(dropCR(Take(data, Index(data, <<LF, LF>>))))]
    ELSE IF Index(data, <<CR, LF, CR, LF>>) >= 0
    THEN [advance |-> Index(data, <<CR, LF, CR, LF>>) + 4,
          token |-> Token(dropCR(Take(data, Index(data, <<CR, LF, CR, LF>>))))]
    ELSE [advance |-> 0, token |-> NilToken]

scan(data, atEOF) ==
    IF atEOF /\ Len(data) = 0 THEN [advance |-> 0, token |-> NilToken]
    ELSE IF Index(data, <<LF, LF>>) >= 0
    THEN [advance |-> Index(data, <<LF, LF>>) + 2,
          token |-> Token(dropCR(Take(data, Index(data, <<LF, LF>>))))]
    ELSE IF Index(data, <<CR, LF, CR, LF>>) >= 0
    THEN [advance |-> Index(data, <<CR, LF, CR, LF>>) + 4,
          token |-> Token(dropCR(Take(data, Index(data, <<CR, LF, CR, LF>>))))]
    ELSE IF atEOF THEN [advance |-> Len(data), token |-> Token(dropCR(data))]
    ELSE [advance |-> 0, token |-> NilToken]

\* prefix, data, _ := bytes.Cut(line, []byte(":"))
Cut(line) ==
    IF Index(line, <<":">>) < 0 THEN [prefix |-> line, data |-> <<>>]
    ELSE [prefix |-> Take(line, Index(line, <<":">>)),
          data |-> Drop(line, Index(line, <<":">>) + 1)]

\* json.Unmarshal(data, &respRaw): JSON allows white space (here CR and LF)
\* around the one value, which must be an object.
RECURSIVE TrimLeft(_)
TrimLeft(d) == IF Len(d) > 0 /\ d[1] \in {CR, LF} THEN TrimLeft(Drop(d, 1)) ELSE d
RECURSIVE TrimRight(_)
TrimRight(d) ==
    IF Len(d) > 0 /\ d[Len(d)] \in {CR, LF} THEN TrimRight(Take(d, Len(d) - 1)) ELSE d
JSONObjects == {"{ok}", "{bad}"}
UnmarshalOK(data) ==
    LET v == TrimRight(TrimLeft(data)) IN Len(v) = 1 /\ v[1] \in JSONObjects
Unmarshalled(data) == TrimRight(TrimLeft(data))[1]

\* responseConverter(respRaw): the caller's function.  It accepts "{ok}" and
\* rejects "{bad}"; on the empty map left by a failed Unmarshal it may do either.
ConverterOutcomes(raw) ==
    CASE raw = "{ok}" -> {TRUE}
      [] raw = "{bad}" -> {FALSE}
      [] OTHER -> BOOLEAN

\* The frames a server writes: a payload and its terminator.
FramePayloads ==
    [ dataOK |-> <<"data", ":", "{ok}">>,
      dataBad |-> <<"data", ":", "{bad}">>,
      dataJunk |-> <<"data", ":", "junk">>,
      ping |-> <<"event", ":", "junk">>,
      empty |-> <<>>,
      big |-> [i \in 1..MaxTokenSize |-> IF i = 1 THEN "data" ELSE IF i = 2 THEN ":" ELSE "junk"] ]
Terminators == [ lf |-> <<LF, LF>>, crlf |-> <<CR, LF, CR, LF>>, none |-> <<>> ]
Frame(p, t) == [payload |-> p, term |-> t]
Frames ==
    { Frame("dataOK", "lf"), Frame("dataOK", "crlf"), Frame("dataOK", "none"),
      Frame("dataBad", "lf"), Frame("dataJunk", "lf"), Frame("ping", "lf"),
      Frame("empty", "lf"), Frame("big", "none") }
FrameBytes(f) == FramePayloads[f.payload] \o Terminators[f.term]
RECURSIVE BodyBytes(_)
BodyBytes(fs) == IF fs = <<>> THEN <<>> ELSE FrameBytes(fs[1]) \o BodyBytes(Tail(fs))
\* A body: frames, of which only the last may lack its terminator.
StreamBodies ==
    {b \in UNION {[1..n -> Frames] : n \in 0..MaxFrames} :
        \A i \in 1..(Len(b) - 1) : b[i].term # "none"}

Item(r, e, t) == [resp |-> r, err |-> e, tok |-> t]

\* rs.r.Err(): io.EOF is reported as nil.
ScannerErr(e) == IF e = "EOF" THEN "nil" ELSE e

\* A responseStream as deserializeStreamResponse leaves it, over a body.
SInit ==
    /\ sent \in StreamBodies
    /\ wire = BodyBytes(sent)
    /\ spc = "scan"
    /\ buf = <<>> /\ bufLen = BufSize0 /\ scanErr = "nil"
    /\ tokens = <<>> /\ items = <<>> /\ respRaw = ""
    /\ closeCount = 0 /\ logged = "nil" /\ stopped = FALSE

\* returnStopped with the Close placed after the loop instead of deferred: a
\* return out of the loop body skips it.
returnStopped_CloseAfterLoop ==
    /\ spc' = "done"
    /\ stopped' = TRUE
    /\ UNCHANGED <<closeCount, logged>>

\* A yield returned false: return, and the deferred rs.rc.Close() runs.
returnStopped ==
    /\ spc' = "done"
    /\ stopped' = TRUE
    /\ closeCount' = closeCount + 1
    /\ logged' = logged

\* Scan returned false: the log of rs.r.Err(), return, the deferred Close.
returnScanDone(e) ==
    /\ spc' = "done"
    /\ stopped' = FALSE
    /\ closeCount' = closeCount + 1
    /\ logged' = ScannerErr(e)

\* The consumer's answer to a yield: keep pulling (go to next) or stop.
Yielded(next) ==
    \/ /\ spc' = next
       /\ UNCHANGED <<closeCount, logged, stopped>>
    \/ returnStopped

\* rs.r.Scan(), up to a token, the end of the input or the need to read:
\* the split function is tried on what the buffer holds.
Scan ==
    /\ spc = "scan"
    /\ LET try == Len(buf) > 0 \/ scanErr # "nil"
           r == scan(buf, scanErr # "nil")
       IN  IF try /\ ~r.token.nil
           THEN /\ buf' = Drop(buf, r.advance)
                /\ tokens' = Append(tokens, r.token.bytes)
                /\ spc' = "token"
                /\ UNCHANGED <<closeCount, logged, stopped>>
           ELSE IF scanErr # "nil"
           THEN /\ buf' = <<>>
                /\ tokens' = tokens
                /\ returnScanDone(scanErr)
           ELSE /\ spc' = "read"
                /\ UNCHANGED <<buf, tokens, closeCount, logged, stopped>>
    /\ UNCHANGED <<wire, sent, bufLen, scanErr, items, respRaw>>
    /\ UNCHANGED <<tvars, lvars, xvars>>

\* Read with the scanner's error handed to yield after the loop.
Read_YieldScannerErr ==
    /\ spc = "read"
    /\ IF Len(buf) = bufLen /\ bufLen >= MaxTokenSize
       THEN /\ scanErr' = "ErrTooLong"
            /\ returnScanDone("ErrTooLong")
            /\ items' = Append(items, Item("nil", "ErrTooLong", Len(tokens)))
            /\ UNCHANGED <<buf, bufLen, wire>>
       ELSE /\ bufLen' = IF Len(buf) = bufLen THEN Min(bufLen * 2, MaxTokenSize) ELSE bufLen
            /\ \/ \E n \in 1..Min(bufLen' - Len(buf), Len(wire)) :
                    /\ buf' = buf \o Take(wire, n)
                    /\ wire' = Drop(wire, n)
                    /\ scanErr' = scanErr
               \/ /\ Len(wire) = 0
                  /\ scanErr' = "EOF"
                  /\ UNCHANGED <<buf, wire>>
               \/ /\ scanErr' = "read"
                  /\ UNCHANGED <<buf, wire>>
            /\ spc' = "scan"
            /\ UNCHANGED <<items, closeCount, logged, stopped>>
    /\ UNCHANGED <<sent, tokens, respRaw>>
    /\ UNCHANGED <<tvars, lvars, xvars>>

\* rs.r.Scan(), reading more: a full buffer is doubled up to the ceiling, or
\* the scan stops with ErrTooLong; then one Read of the body, which gives
\* some bytes, io.EOF at the end of the body, or a failure.
Read ==
    /\ spc = "read"
    /\ IF Len(buf) = bufLen /\ bufLen >= MaxTokenSize
       THEN /\ scanErr' = "ErrTooLong"
            /\ returnScanDone("ErrTooLong")
            /\ UNCHANGED <<buf, bufLen, wire>>
       ELSE /\ bufLen' = IF Len(buf) = bufLen THEN Min(bufLen * 2, MaxTokenSize) ELSE bufLen
            /\ \/ \E n \in 1..Min(bufLen' - Len(buf), Len(wire)) :
                    /\ buf' = buf \o Take(wire, n)
                    /\ wire' = Drop(wire, n)
                    /\ scanErr' = scanErr
               \/ /\ Len(wire) = 0
                  /\ scanErr' = "EOF"
                  /\ UNCHANGED <<buf, wire>>
               \/ /\ scanErr' = "read"
                  /\ UNCHANGED <<buf, wire>>
            /\ spc' = "scan"
            /\ UNCHANGED <<closeCount, logged, stopped>>
    /\ UNCHANGED <<sent, tokens, items, respRaw>>
    /\ UNCHANGED <<tvars, lvars, xvars>>

\* Decode with a return after the error item of the default case, whatever
\* the consumer answered.
Decode_ReturnOnInvalidChunk ==
    /\ spc = "token"
    /\ LET line == Last(tokens)
           c == Cut(line)
       IN  IF Len(line) = 0
           THEN /\ spc' = "scan"
                /\ UNCHANGED <<items, respRaw, closeCount, logged, stopped>>
           ELSE IF c.prefix = <<"data">>
           THEN IF UnmarshalOK(c.data)
                THEN /\ respRaw' = Unmarshalled(c.data)
                     /\ spc' = "convert"
                     /\ UNCHANGED <<items, closeCount, logged, stopped>>
                ELSE /\ respRaw' = "empty map"
                     /\ items' = Append(items, Item("nil", "unmarshal", Len(tokens)))
                     /\ Yielded("convert")
           ELSE /\ items' = Append(items, Item("nil", "invalid stream chunk", Len(tokens)))
                /\ respRaw' = respRaw
                /\ spc' = "done"
                /\ closeCount' = closeCount + 1
                /\ logged' = logged
                /\ stopped' \in BOOLEAN
    /\ UNCHANGED <<wire, sent, buf, bufLen, scanErr, tokens>>
    /\ UNCHANGED <<tvars, lvars, xvars>>

\* The loop body up to its first yield: the empty line, the prefix, Step 1.
Decode ==
    /\ spc = "token"
    /\ LET line == Last(tokens)
           c == Cut(line)
       IN  IF Len(line) = 0
           THEN /\ spc' = "scan"
                /\ UNCHANGED <<items, respRaw, closeCount, logged, stopped>>
           ELSE IF c.prefix = <<"data">>
           THEN IF UnmarshalOK(c.data)
                THEN /\ respRaw' = Unmarshalled(c.data)
                     /\ spc' = "convert"
                     /\ UNCHANGED <<items, closeCount, logged, stopped>>
                ELSE /\ respRaw' = "empty map"
                     /\ items' = Append(items, Item("nil", "unmarshal", Len(tokens)))
                     /\ Yielded("convert")
           ELSE /\ items' = Append(items, Item("nil", "invalid stream chunk", Len(tokens)))
                /\ respRaw' = respRaw
                /\ Yielded("scan")
    /\ UNCHANGED <<wire, sent, buf, bufLen, scanErr, tokens>>
    /\ UNCHANGED <<tvars, lvars, xvars>>

\* Step 2, and Step 3 when the conversion succeeded.
Convert ==
    /\ spc = "convert"
    /\ \E ok \in ConverterOutcomes(respRaw) :
          IF ok
          THEN /\ items' = Append(items, Item("event", "nil", Len(tokens)))
               /\ Yielded("scan")
          ELSE /\ items' = Append(items, Item("nil", "convert", Len(tokens)))
               /\ Yielded("step3")
    /\ UNCHANGED <<wire, sent, buf, bufLen, scanErr, tokens, respRaw>>
    /\ UNCHANGED <<tvars, lvars, xvars>>

\* Step 3 after a conversion error the consumer pulled past: resp is nil.
YieldResp ==
    /\ spc = "step3"
    /\ items' = Append(items, Item("nil", "nil", Len(tokens)))
    /\ Yielded("scan")
    /\ UNCHANGED <<wire, sent, buf, bufLen, scanErr, tokens, respRaw>>
    /\ UNCHANGED <<tvars, lvars, xvars>>

InitStream == TInit /\ SInit /\ LIdle /\ XIdle

NextStream ==
    \/ Scan
    \/ Read
    \/ Decode
    \/ Convert
    \/ YieldResp

SpecStream == InitStream /\ [][NextStream]_vars

(***************************************************************************)
(* Stream Decoder: the properties.                                         *)
(***************************************************************************)
ItemsOf(t) == SelectSeq(items, LAMBDA it : it.tok = t)
NonEmpty(t) == Len(tokens[t]) > 0
IsData(t) == Cut(tokens[t]).prefix = <<"data">>
\* A data token whose JSON parses and whose map the conversion accepts.
WellFormed(t) ==
    /\ IsData(t)
    /\ UnmarshalOK(Cut(tokens[t]).data)
    /\ ConverterOutcomes(Unmarshalled(Cut(tokens[t]).data)) = {TRUE}
\* The loop body has finished with token t.
Processed(t) ==
    \/ t < Len(tokens)
    \/ spc \in {"scan", "read"}
    \/ spc = "done" /\ ~stopped
Ended == spc = "done"

\* C1: one iteration closes the underlying body exactly once, and only when
\* the iteration ends, whichever way it ends.
C1_ClosedExactlyOnceAtEnd ==
    closeCount = (IF Ended THEN 1 ELSE 0)
C1_Witness ==
    /\ Ended /\ stopped /\ closeCount = 1
    /\ Len(items) >= 2
    /\ Last(items).err # "nil"
    /\ items[1].resp = "event"

\* C6: every non-empty token yields exactly one item: (event, nil) when the
\* prefix is data and the JSON parse and the conversion succeed, otherwise one
\* (nil, error) item and no event; after an error item the sequence goes on
\* with the next token.
C6_OneItemPerToken ==
    \A t \in 1..Len(tokens) :
        /\ Len(ItemsOf(t)) <= 1
        /\ (NonEmpty(t) /\ Processed(t)) =>
              /\ Len(ItemsOf(t)) = 1
              /\ IF WellFormed(t)
                 THEN ItemsOf(t)[1] = Item("event", "nil", t)
                 ELSE ItemsOf(t)[1].resp = "nil" /\ ItemsOf(t)[1].err # "nil"

\* C7: a failure of the body's Read part-way through the stream is reported:
\* the sequence yields an error item for it before it ends.
C7_ReadFailureReported ==
    (Ended /\ ~stopped /\ scanErr = "read") =>
        /\ items # <<>>
        /\ Last(items).resp = "nil"
        /\ Last(items).err # "nil"

\* C8, as claimed: a token whose prefix is not data yields an error item that
\* carries no event and does not end the sequence; every later well-formed
\* data token is yielded as an event, in input order.
InInputOrder == \A i, j \in 1..Len(items) : i < j => items[i].tok <= items[j].tok
EndsOnlyWithScanner == (Ended /\ ~stopped) => scanErr # "nil"
LaterEventsYielded(t) ==
    \A u \in (t + 1)..Len(tokens) :
        (WellFormed(u) /\ Processed(u)) => ItemsOf(u) = <<Item("event", "nil", u)>>
WellFormedInput ==
    \A i \in 1..Len(sent) : sent[i].payload = "dataOK" /\ sent[i].term \in {"lf", "crlf"}
PulledToEnd == Ended /\ ~stopped /\ scanErr = "EOF"
NEvents == [i \in 1..Len(sent) |-> Item("event", "nil", i)]
C9_NEventsInOrder ==
    (WellFormedInput /\ PulledToEnd) => (items = NEvents /\ closeCount = 1)

\* What the code keeps of C9: the same when no frame terminated by \r\n\r\n
\* comes before one terminated by \n\n.
NoCRLFBeforeLF ==
    \A i, j \in 1..Len(sent) : (i < j /\ sent[i].term = "crlf") => sent[j].term # "lf"
NEventsWhenDelimitersAgree ==
    (WellFormedInput /\ NoCRLFBeforeLF /\ PulledToEnd) => (items = NEvents /\ closeCount = 1)

\* C10: when the scanner stops because a token exceeds the buffer ceiling, the
\* sequence ends like a normal end of stream: no item is yielded for the
\* condition, the events of all earlier tokens have been yielded, and the
\* body is closed.
C10_TooLongEndsQuietly ==
    scanErr = "ErrTooLong" =>
        /\ Ended /\ ~stopped /\ closeCount = 1
        /\ logged = "ErrTooLong"
        /\ \A i \in 1..Len(items) :
              /\ items[i].tok \in 1..Len(tokens)
              /\ items[i].err \in {"nil", "unmarshal", "convert", "invalid stream chunk"}
        /\ \A t \in 1..Len(tokens) :
              WellFormed(t) => ItemsOf(t) = <<Item("event", "nil", t)>>
C10_Witness ==
    /\ scanErr = "ErrTooLong" /\ Ended
    /\ Len(tokens) = 2
    /\ items = <<Item("event", "nil", 1), Item("event", "nil", 2)>>

(***************************************************************************)
(* The Realtime Session (live.go): Connect, Send, Receive, Close over one  *)
(* websocket connection.  Resource names are sequences of the segments     *)
(* between slashes: "models/m" is <<"models", "m">>, "" is <<>>.           *)
(***************************************************************************)
\* A session is explored for at most MaxTraffic Send calls and server frames
\* together.
MaxTraffic == 3

AccessTokens == {"fake_access_token"}
Backends == {"direct", "hosted"}

\* strings.HasPrefix(name, prefix + "/")
HasPrefix(name, prefix) == Len(name) >= 2 /\ name[1] = prefix

NameResult(err, name) == [err |-> err, name |-> name]

\* tModel taking every name without a known prefix for a Google model: the
\* vendor of "vendor/name" is not used.
tModel_GoogleOnly(b, origin) ==
    IF origin = <<>> THEN NameResult(TRUE, <<>>)
    ELSE IF b = "hosted"
    THEN IF \/ HasPrefix(origin, "projects") \/ HasPrefix(origin, "models")
            \/ HasPrefix(origin, "publishers")
         THEN NameResult(FALSE, origin)
         ELSE NameResult(FALSE, <<"publishers", "google", "models">> \o origin)
    ELSE IF HasPrefix(origin, "models") \/ HasPrefix(origin, "tunedModels")
         THEN NameResult(FALSE, origin)
         ELSE NameResult(FALSE, <<"models">> \o origin)

\* tModel on the hosted backend not taking a name under publishers/ as it is.
tModel_NoPublishersIdentity(b, origin) ==
    IF origin = <<>> THEN NameResult(TRUE, <<>>)
    ELSE IF b = "hosted"
    THEN IF HasPrefix(origin, "projects") \/ HasPrefix(origin, "models")
         THEN NameResult(FALSE, origin)
         ELSE IF Len(origin) > 1
         THEN NameResult(FALSE, <<"publishers", origin[1], "models">> \o Tail(origin))
         ELSE NameResult(FALSE, <<"publishers", "google", "models">> \o origin)
    ELSE IF HasPrefix(origin, "models") \/ HasPrefix(origin, "tunedModels")
         THEN NameResult(FALSE, origin)
         ELSE NameResult(FALSE, <<"models">> \o origin)

tModel(b, origin) ==
    IF origin = <<>> THEN NameResult(TRUE, <<>>)
    ELSE IF b = "hosted"
    THEN IF \/ HasPrefix(origin, "projects") \/ HasPrefix(origin, "models")
            \/ HasPrefix(origin, "publishers")
         THEN NameResult(FALSE, origin)
         ELSE IF Len(origin) > 1
         THEN NameResult(FALSE, <<"publishers", origin[1], "models">> \o Tail(origin))
         ELSE NameResult(FALSE, <<"publishers", "google", "models">> \o origin)
    ELSE IF HasPrefix(origin, "models") \/ HasPrefix(origin, "tunedModels")
         THEN NameResult(FALSE, origin)
         ELSE NameResult(FALSE, <<"models">> \o origin)

\* tModelFullName stopping at tModel: no project and location on the hosted
\* backend.
tModelFullName_NoProject(b, origin) == tModel(b, origin)

\* tModelFullName treating a name under models/ like one under publishers/:
\* publishers/google/ is not inserted.
tModelFullName_NoPublisher(b, origin) ==
    LET r == tModel(b, origin) IN
    IF r.err THEN NameResult(TRUE, <<>>)
    ELSE IF (HasPrefix(r.name, "publishers") \/ HasPrefix(r.name, "models")) /\ b = "hosted"
    THEN NameResult(FALSE, <<"projects", Project, "locations", Location>> \o r.name)
    ELSE r

tModelFullName(b, origin) ==
    LET r == tModel(b, origin) IN
    IF r.err THEN NameResult(TRUE, <<>>)
    ELSE IF HasPrefix(r.name, "publishers") /\ b = "hosted"
    THEN NameResult(FALSE, <<"projects", Project, "locations", Location>> \o r.name)
    ELSE IF HasPrefix(r.name, "models") /\ b = "hosted"
    THEN NameResult(FALSE, <<"projects", Project, "locations", Location,
                             "publishers", "google">> \o r.name)
    ELSE r

ModelNames ==
    { <<>>, <<"test-model">>, <<"models", "test-model">>,
      <<"publishers", "meta", "models", "llama">>, <<"meta", "llama">>,
      <<"tunedModels", "t">> }

\* *LiveConnectConfig: nil, a config with nil fields, a config with all three.
Configs ==
    { NilConfig,
      [nil |-> FALSE, generationConfig |-> "nil", systemInstruction |-> "nil",
       tools |-> "nil"],
      [nil |-> FALSE, generationConfig |-> "temperature:0.5",
       systemInstruction |-> "test instruction", tools |-> "googleSearch"] }

\* setup := &LiveClientSetup{Model: m}; if config != nil { ... }
LiveClientSetup(m, c) ==
    [ model |-> m,
      generationConfig |-> IF c.nil THEN "nil" ELSE c.generationConfig,
      systemInstruction |-> IF c.nil THEN "nil" ELSE c.systemInstruction,
      tools |-> IF c.nil THEN "nil" ELSE c.tools ]

\* json.Marshal(&LiveClientMessage{Setup: setup}): the object {"setup":{...}},
\* a nil member left out.
MarshalSetup(setup) ==
    [ kind |-> "setup",
      model |-> setup.model,
      members |-> {<<k, setup[k]>> :
                     k \in {f \in {"generationConfig", "systemInstruction", "tools"} :
                              setup[f] # "nil"}} ]

\* json.Marshal of the message handed to Send: a message whose Setup is set
\* marshals to an object with a "setup" member.
MarshalMessage(msg) ==
    [kind |-> IF msg.setup THEN "setup" ELSE msg.kind, model |-> <<>>, members |-> {}]

\* The messages handed to Send: Setup set or not, with or without content.
ClientMessages ==
    { [setup |-> TRUE, kind |-> "setup"],
      [setup |-> TRUE, kind |-> "clientContent"],
      [setup |-> FALSE, kind |-> "clientContent"] }

\* A frame on the socket: who wrote it, its websocket type, its JSON.
OutFrame(by, body) == [by |-> by, type |-> "text", body |-> body]

\* The frames a server sends: {"setupComplete":{}}, {"serverContent":{...}},
\* {"error":{"code":400,...}}, bytes that are not JSON ("setupComplete":{}
\* without braces), JSON that is not an object ([]).
ServerFrames == {"setupComplete", "serverContent", "error", "malformed", "notObject"}

NilMessage == [nil |-> TRUE, members |-> {}]

\* json.Unmarshal(msgBytes, message) into a LiveServerMessage: an error for
\* bytes that are not JSON or not an object; a member the struct does not
\* declare ("error") is ignored.
UnmarshalServerMessage(k) ==
    IF k \in {"malformed", "notObject"}
    THEN [err |-> TRUE, msg |-> NilMessage]
    ELSE [err |-> FALSE,
          msg |-> [nil |-> FALSE,
                   members |-> {k} \cap {"setupComplete", "serverContent"}]]

HostedPath == "/ws/google.cloud.aiplatform.v1beta1.LlmBidiService/BidiGenerateContent"
DirectPath == "/ws/google.ai.generativelanguage.v1alpha.GenerativeService.BidiGenerateContent"
Schemes == {"https", "ws", "wss"}

sessionVarsUnchanged ==
    UNCHANGED <<connOpen, clientClosed, writeErr, connReadErr, socketOut,
                served, inbox, received, sends>>

\* Connect(model, config) on a client of the backend: url.Parse(baseURL) and
\* the scheme.
Connect ==
    /\ lpc = "unconnected"
    /\ \/ lpc' = "failed" /\ dialReq' = dialReq
       \/ /\ lpc' = "auth"
          /\ \E sc \in Schemes :
                dialReq' = [dialReq EXCEPT
                               !.scheme = IF sc # "wss" /\ sc # "ws" THEN "wss" ELSE sc]
    /\ UNCHANGED <<backend, model, config, tokenCalls, tokenFailed, dials>>
    /\ sessionVarsUnchanged /\ UNCHANGED <<tvars, svars, xvars>>

\* connectAuth with the error of Token() dropped: the dial goes on with an
\* empty token.
connectAuth_IgnoresTokenError ==
    /\ lpc = "auth"
    /\ lpc' = "dial"
    /\ IF backend = "hosted"
       THEN /\ tokenCalls' = tokenCalls + 1
            /\ \E t \in AccessTokens \cup {""} :
                  /\ tokenFailed' = (t = "")
                  /\ dialReq' = [dialReq EXCEPT
                        !.path = HostedPath,
                        !.header = {<<"Content-Type", "application/json">>,
                                    <<"Authorization", "Bearer " \o t>>}]
       ELSE /\ dialReq' = [dialReq EXCEPT !.path = DirectPath,
                                          !.query = "key=" \o APIKey]
            /\ UNCHANGED <<tokenCalls, tokenFailed>>
    /\ UNCHANGED <<backend, model, config, dials>>
    /\ sessionVarsUnchanged /\ UNCHANGED <<tvars, svars, xvars>>

\* Connect: the URL and the header of the backend; the hosted backend asks the
\* token source first.
connectAuth ==
    /\ lpc = "auth"
    /\ IF backend = "hosted"
       THEN /\ tokenCalls' = tokenCalls + 1
            /\ \/ /\ tokenFailed' = TRUE /\ lpc' = "failed"
                  /\ dialReq' = dialReq
               \/ /\ tokenFailed' = FALSE /\ lpc' = "dial"
                  /\ \E t \in AccessTokens :
                        dialReq' = [dialReq EXCEPT
                            !.path = HostedPath,
                            !.header = {<<"Content-Type", "application/json">>,
                                        <<"Authorization", "Bearer " \o t>>}]
       ELSE /\ lpc' = "dial"
            /\ dialReq' = [dialReq EXCEPT !.path = DirectPath,
                                          !.query = "key=" \o APIKey]
            /\ UNCHANGED <<tokenCalls, tokenFailed>>
    /\ UNCHANGED <<backend, model, config, dials>>
    /\ sessionVarsUnchanged /\ UNCHANGED <<tvars, svars, xvars>>

\* Connect: websocket.DefaultDialer.Dial(u.String(), header)
connectDial ==
    /\ lpc = "dial"
    /\ dials' = dials + 1
    /\ \/ lpc' = "failed" /\ connOpen' = connOpen
       \/ lpc' = "setup" /\ connOpen' = TRUE
    /\ UNCHANGED <<backend, model, config, dialReq, tokenCalls, tokenFailed,
                   clientClosed, writeErr, connReadErr, socketOut, served, inbox,
                   received, sends>>
    /\ UNCHANGED <<tvars, svars, xvars>>

\* The server sends a frame on an open connection.
ServerSend ==
    /\ connOpen /\ Len(sends) + Len(served) < MaxTraffic
    /\ lpc = "setup" => served = <<>>
    /\ \E k \in ServerFrames :
          \* answer: the frame follows a message of the client
          LET f == [kind |-> k, answer |-> \E i \in 1..Len(socketOut) :
                                             socketOut[i].by = "Send"] IN
          served' = Append(served, f) /\ inbox' = Append(inbox, f)
    /\ UNCHANGED <<lpc, backend, model, config, dialReq, tokenCalls, tokenFailed,
                   dials, connOpen, clientClosed, writeErr, connReadErr,
                   socketOut, received, sends>>
    /\ UNCHANGED <<tvars, svars, xvars>>

\* conn.WriteMessage(websocket.TextMessage, data): a write on a closed or
\* failed connection fails, and a failed write makes every later write fail.
WriteMessage(by, body, ok) ==
    LET done == ok /\ connOpen /\ ~writeErr IN
    /\ socketOut' = IF done THEN Append(socketOut, OutFrame(by, body)) ELSE socketOut
    /\ writeErr' = (writeErr \/ ~done)

\* connectSetup reading the server's first frame before it returns.
connectSetup_ReadsFirstFrame ==
    /\ lpc = "setup"
    /\ LET m == tModelFullName(backend, model) IN
       IF m.err
       THEN /\ lpc' = "failed"
            /\ UNCHANGED <<socketOut, writeErr, inbox>>
       ELSE \/ /\ lpc' = "failed"
               /\ UNCHANGED <<socketOut, writeErr, inbox>>
            \/ /\ lpc' = "established"
               /\ inbox # <<>> /\ inbox' = Tail(inbox)
               /\ \E ok \in BOOLEAN :
                     WriteMessage("Connect", MarshalSetup(LiveClientSetup(m.name, config)), ok)
    /\ UNCHANGED <<backend, model, config, dialReq, tokenCalls, tokenFailed, dials,
                   connOpen, clientClosed, connReadErr, served, received, sends>>
    /\ UNCHANGED <<tvars, svars, xvars>>

\* Connect: tModelFullName, the setup message, json.Marshal, WriteMessage (its
\* error is dropped), return s, nil.
connectSetup ==
    /\ lpc = "setup"
    /\ LET m == tModelFullName(backend, model) IN
       IF m.err
       THEN /\ lpc' = "failed"
            /\ UNCHANGED <<socketOut, writeErr>>
       ELSE \/ \* json.Marshal failed
               /\ lpc' = "failed"
               /\ UNCHANGED <<socketOut, writeErr>>
            \/ /\ lpc' = "established"
               /\ \E ok \in BOOLEAN :
                     WriteMessage("Connect", MarshalSetup(LiveClientSetup(m.name, config)), ok)
    /\ UNCHANGED <<backend, model, config, dialReq, tokenCalls, tokenFailed, dials,
                   connOpen, clientClosed, connReadErr, served, inbox, received,
                   sends>>
    /\ UNCHANGED <<tvars, svars, xvars>>

SendResult(msg, err, wrote) == [msg |-> msg, err |-> err, wrote |-> wrote]

\* Send without the test of input.Setup.
Send_NoSetupCheck ==
    /\ lpc = "established" /\ Len(sends) + Len(served) < MaxTraffic
    /\ \E msg \in ClientMessages :
          \/ /\ sends' = Append(sends, SendResult(msg, "marshal", 0))
             /\ UNCHANGED <<socketOut, writeErr>>
          \/ \E ok \in BOOLEAN :
                /\ WriteMessage("Send", MarshalMessage(msg), ok)
                /\ sends' = Append(sends,
                      SendResult(msg,
                                 IF Len(socketOut') > Len(socketOut) THEN "nil" ELSE "write",
                                 Len(socketOut') - Len(socketOut)))
    /\ UNCHANGED <<lpc, backend, model, config, dialReq, tokenCalls, tokenFailed,
                   dials, connOpen, clientClosed, connReadErr, served, inbox,
                   received>>
    /\ UNCHANGED <<tvars, svars, xvars>>

\* Session.Send
Send ==
    /\ lpc = "established" /\ Len(sends) + Len(served) < MaxTraffic
    /\ \E msg \in ClientMessages :
          IF msg.setup
          THEN /\ sends' = Append(sends, SendResult(msg, "SetUp is not supported in Send()", 0))
               /\ UNCHANGED <<socketOut, writeErr>>
          ELSE \/ \* json.Marshal failed
                  /\ sends' = Append(sends, SendResult(msg, "marshal", 0))
                  /\ UNCHANGED <<socketOut, writeErr>>
               \/ \E ok \in BOOLEAN :
                     /\ WriteMessage("Send", MarshalMessage(msg), ok)
                     /\ sends' = Append(sends,
                           SendResult(msg,
                                      IF Len(socketOut') > Len(socketOut) THEN "nil" ELSE "write",
                                      Len(socketOut') - Len(socketOut)))
    /\ UNCHANGED <<lpc, backend, model, config, dialReq, tokenCalls, tokenFailed,
                   dials, connOpen, clientClosed, connReadErr, served, inbox,
                   received>>
    /\ UNCHANGED <<tvars, svars, xvars>>

\* What a Receive call returned; frame is the position, among the frames the
\* server sent, of the frame it read (0: it read none).
ReceiveResult(frame, msg, err) == [frame |-> frame, msg |-> msg, err |-> err]

\* Receive reporting an {"error":...} frame of the server as an error.
Receive_ReportsServerError ==
    /\ lpc = "established" /\ Len(received) <= Len(served)
    /\ \/ /\ connOpen /\ ~connReadErr /\ inbox # <<>>
          /\ LET u == UnmarshalServerMessage(Head(inbox).kind) IN
             received' = Append(received,
                   IF Head(inbox).kind = "error"
                   THEN ReceiveResult(Len(served) - Len(inbox) + 1, NilMessage, "server error")
                   ELSE ReceiveResult(Len(served) - Len(inbox) + 1, u.msg,
                                      IF u.err THEN "invalid message format" ELSE "nil"))
          /\ inbox' = Tail(inbox)
          /\ UNCHANGED connReadErr
       \/ /\ received' = Append(received, ReceiveResult(0, NilMessage, "read"))
          /\ connReadErr' = TRUE
          /\ UNCHANGED inbox
    /\ UNCHANGED <<lpc, backend, model, config, dialReq, tokenCalls, tokenFailed,
                   dials, connOpen, clientClosed, writeErr, socketOut, served,
                   sends>>
    /\ UNCHANGED <<tvars, svars, xvars>>

\* Receive dialing again when the read fails: the session gets a new socket.
Receive_RedialsOnReadError ==
    /\ lpc = "established" /\ Len(received) <= Len(served)
    /\ \/ /\ connOpen /\ ~connReadErr /\ inbox # <<>>
          /\ LET u == UnmarshalServerMessage(Head(inbox).kind) IN
             received' = Append(received,
                   ReceiveResult(Len(served) - Len(inbox) + 1, u.msg,
                                 IF u.err THEN "invalid message format" ELSE "nil"))
          /\ inbox' = Tail(inbox)
          /\ UNCHANGED <<connReadErr, dials, connOpen>>
       \/ /\ received' = Append(received, ReceiveResult(0, NilMessage, "read"))
          /\ connReadErr' = FALSE /\ dials' = dials + 1 /\ connOpen' = TRUE
          /\ UNCHANGED inbox
    /\ UNCHANGED <<lpc, backend, model, config, dialReq, tokenCalls, tokenFailed,
                   clientClosed, writeErr, socketOut, served, sends>>
    /\ UNCHANGED <<tvars, svars, xvars>>

\* Receive closing the connection when the frame does not decode.
Receive_ClosesOnFormatError ==
    /\ lpc = "established" /\ Len(received) <= Len(served)
    /\ \/ /\ connOpen /\ ~connReadErr /\ inbox # <<>>
          /\ LET u == UnmarshalServerMessage(Head(inbox).kind) IN
             /\ received' = Append(received,
                   ReceiveResult(Len(served) - Len(inbox) + 1, u.msg,
                                 IF u.err THEN "invalid message format" ELSE "nil"))
             /\ connOpen' = (connOpen /\ ~u.err)
          /\ inbox' = Tail(inbox)
          /\ UNCHANGED connReadErr
       \/ /\ received' = Append(received, ReceiveResult(0, NilMessage, "read"))
          /\ connReadErr' = TRUE
          /\ UNCHANGED <<inbox, connOpen>>
    /\ UNCHANGED <<lpc, backend, model, config, dialReq, tokenCalls, tokenFailed,
                   dials, clientClosed, writeErr, socketOut, served, sends>>
    /\ UNCHANGED <<tvars, svars, xvars>>

\* Session.Receive: conn.ReadMessage() hands over the next frame, or fails (the
\* connection broke or was closed); then json.Unmarshal.
Receive ==
    /\ lpc = "established" /\ Len(received) <= Len(served)
    /\ \/ /\ connOpen /\ ~connReadErr /\ inbox # <<>>
          /\ LET u == UnmarshalServerMessage(Head(inbox).kind) IN
             received' = Append(received,
                   ReceiveResult(Len(served) - Len(inbox) + 1, u.msg,
                                 IF u.err THEN "invalid message format" ELSE "nil"))
          /\ inbox' = Tail(inbox)
          /\ UNCHANGED connReadErr
       \/ /\ received' = Append(received, ReceiveResult(0, NilMessage, "read"))
          /\ connReadErr' = TRUE
          /\ UNCHANGED inbox
    /\ UNCHANGED <<lpc, backend, model, config, dialReq, tokenCalls, tokenFailed,
                   dials, connOpen, clientClosed, writeErr, socketOut, served,
                   sends>>
    /\ UNCHANGED <<tvars, svars, xvars>>

\* Session.Close
Close ==
    /\ lpc = "established" /\ ~clientClosed
    /\ connOpen' = FALSE /\ clientClosed' = TRUE
    /\ UNCHANGED <<lpc, backend, model, config, dialReq, tokenCalls, tokenFailed,
                   dials, writeErr, connReadErr, socketOut, served, inbox,
                   received, sends>>
    /\ UNCHANGED <<tvars, svars, xvars>>

\* Connect alone, for every backend, model name and config.
InitConnect ==
    /\ TInit /\ SIdle /\ SessionIdle /\ XIdle
    /\ backend \in Backends /\ model \in ModelNames /\ config \in Configs

NextConnect ==
    \/ Connect
    \/ connectAuth
    \/ connectDial
    \/ connectSetup

SpecConnect == InitConnect /\ [][NextConnect]_vars

\* A session and its traffic, for one model name.
InitLive ==
    /\ TInit /\ SIdle /\ SessionIdle /\ XIdle
    /\ backend \in Backends /\ model = <<"test-model">> /\ config = NilConfig

NextLive ==
    \/ Connect
    \/ connectAuth
    \/ connectDial
    \/ connectSetup
    \/ ServerSend
    \/ Send
    \/ Receive
    \/ Close

SpecLive == InitLive /\ [][NextLive]_vars

(***************************************************************************)
(* Properties of the Realtime Session.                                     *)
(***************************************************************************)
IsSetupFrame(f) == f.body.kind = "setup"

\* C14: a Send of a message whose Setup is set returns an error and writes no
\* frame; a setup frame on the socket is the first frame and was written by
\* Connect; every other Send writes one text frame, or none when it returns an
\* error.
C14_SetupOnlyInConnect ==
    /\ \A i \in 1..Len(sends) :
          IF sends[i].msg.setup
          THEN sends[i].err # "nil" /\ sends[i].wrote = 0
          ELSE /\ sends[i].wrote \in {0, 1}
               /\ sends[i].err = "nil" <=> sends[i].wrote = 1
    /\ \A i \in 1..Len(socketOut) :
          /\ socketOut[i].type = "text"
          /\ IsSetupFrame(socketOut[i]) => i = 1 /\ socketOut[i].by = "Connect"
    /\ Cardinality({i \in 1..Len(socketOut) : socketOut[i].by = "Send"})
          = Cardinality({i \in 1..Len(sends) : sends[i].err = "nil"})

C14_Witness ==
    /\ Len(sends) = 2 /\ sends[1].msg.setup /\ sends[1].err # "nil"
    /\ ~sends[2].msg.setup /\ sends[2].err = "nil"
    /\ Len(socketOut) = 2
    /\ IsSetupFrame(socketOut[1]) /\ socketOut[1].by = "Connect"
    /\ socketOut[2].by = "Send"

\* The name the claim gives for a bare model name.
QualifiedName ==
    IF backend = "hosted"
    THEN <<"projects", Project, "locations", Location, "publishers", "google",
           "models">> \o model
    ELSE <<"models">> \o model

\* The setup frame of C15 for the arguments of this Connect.
SetupFrameAsClaimed(f) ==
    /\ f.by = "Connect" /\ f.type = "text" /\ IsSetupFrame(f)
    /\ Len(model) = 1 => f.body.model = QualifiedName
    /\ \A k \in {"generationConfig", "systemInstruction", "tools"} :
          IF config.nil \/ config[k] = "nil"
          THEN \A p \in f.body.members : p[1] # k
          ELSE <<k, config[k]>> \in f.body.members

\* C15: the first frame written on the socket of a Connect is a text frame
\* holding {"setup":{...}} with the fully qualified model name and the members
\* of the config as supplied, and nothing is written before Connect returns
\* but that frame.
C15_SetupFrameFirst ==
    /\ socketOut # <<>> => SetupFrameAsClaimed(socketOut[1])
    /\ lpc # "established" => socketOut = <<>>
    /\ lpc = "established" => Len(socketOut) <= 1

C15_Witness ==
    /\ lpc = "established" /\ backend = "hosted" /\ model = <<"test-model">>
    /\ Len(socketOut) = 1
    /\ socketOut[1].body.model =
          <<"projects", "test-project", "locations", "test-location",
            "publishers", "google", "models", "test-model">>
    /\ socketOut[1].body.members =
          {<<"generationConfig", "temperature:0.5">>,
           <<"systemInstruction", "test instruction">>,
           <<"tools", "googleSearch">>}

\* C31: when Connect returns an error, no socket opened by the call is left
\* open: a failure after the dial succeeded closes the connection.
C31_NoSocketLeftOpen == lpc = "failed" => ~connOpen

\* What the code keeps of C31: a Connect that fails before or at the dial
\* leaves no socket open.
NoSocketWhenDialNotReached == (lpc = "failed" /\ dials = 0) => ~connOpen

\* C32: Connect returns a Session with a nil error only if the setup frame was
\* written to the socket.
C32_ConnectWroteSetup == lpc = "established" => socketOut # <<>>

\* The Receive calls that read a frame, in order.
Reads == SelectSeq(received, LAMBDA r : r.frame # 0)

\* The message a well-formed frame of that kind holds.
MessageOf(kind) ==
    [nil |-> FALSE,
     members |-> IF kind \in {"setupComplete", "serverContent"} THEN {kind} ELSE {}]

Malformed(k) == served[k].kind \in {"malformed", "notObject"}

C17_Credentials ==
    /\ backend = "hosted" =>
          /\ tokenFailed => (dials = 0 /\ ~connOpen /\ lpc = "failed")
          /\ dials > 0 =>
                /\ tokenCalls = 1
                /\ \E t \in AccessTokens :
                      {p \in dialReq.header : p[1] = "Authorization"}
                          = {<<"Authorization", "Bearer " \o t>>}
    /\ backend = "direct" =>
          /\ tokenCalls = 0
          /\ dials > 0 =>
                /\ \A p \in dialReq.header : p[1] # "Authorization"
                /\ dialReq.query = "key=test-api-key"

C17_Witness ==
    /\ backend = "hosted" /\ lpc = "established"
    /\ tokenCalls = 1 /\ dials = 1 /\ connOpen
    /\ <<"Authorization", "Bearer fake_access_token">> \in dialReq.header

\* C18: a Receive that reads a frame that does not decode returns a format
\* error and no message, leaves the connection open, and the next Receive that
\* reads a frame reads the next frame.
C18_FormatErrorKeepsSession ==
    /\ \A k \in 1..Len(Reads) :
          Malformed(Reads[k].frame) =>
              /\ Reads[k].err = "invalid message format"
              /\ Reads[k].msg = NilMessage
              /\ k < Len(Reads) => Reads[k + 1].frame = Reads[k].frame + 1
    /\ (received # <<>> /\ Last(received).err = "invalid message format"
            /\ ~clientClosed)
          => connOpen /\ ~connReadErr

C18_Witness ==
    /\ Len(received) = 2 /\ Malformed(1)
    /\ received[1].err = "invalid message format"
    /\ received[2].frame = 2 /\ received[2].err = "nil"
    /\ served[2].kind = "serverContent"
    /\ received[2].msg.members = {"serverContent"}

C20_ErrorFrameIsAnError ==
    \A k \in 1..Len(Reads) :
        (served[Reads[k].frame].kind = "error" /\ served[Reads[k].frame].answer)
            => Reads[k].err # "nil"

\* The states of a session, in the order of its life.
Rank(st) ==
    CASE st = "unconnected" -> 0
      [] st \in {"auth", "dial", "setup"} -> 1
      [] st = "established" -> 2
      [] st = "failed" -> 3

\* The session cannot be used any more: closed, or its connection failed.
Broken == clientClosed \/ writeErr \/ connReadErr \/ ~connOpen

\* C21: the state of a session only moves forward, and once the session exists
\* no step (Send, Receive, Close, a frame of the server) opens a connection or
\* changes the connection and the client the session was made with; a closed
\* or failed connection stays closed or failed.
C21_ForwardOnly ==
    [][ /\ Rank(lpc') >= Rank(lpc)
        /\ lpc \in {"established", "failed"} =>
              /\ dials' = dials /\ dialReq' = dialReq /\ backend' = backend
              /\ connOpen' => connOpen
              /\ clientClosed => clientClosed'
              /\ writeErr => writeErr'
              /\ connReadErr => connReadErr' ]_vars

C21_Witness ==
    /\ lpc = "established" /\ clientClosed /\ ~connOpen /\ dials = 1
    /\ sends # <<>> /\ Last(sends).err = "write"
    /\ received # <<>> /\ Last(received).err = "read"

(***************************************************************************)
(* Cancellation.  Connect, Send and Receive take no context: the caller's  *)
(* cancelling its context is an event no step of the session observes.     *)
(***************************************************************************)
Cancel ==
    /\ ~ctxCancelled
    /\ ctxCancelled' = TRUE
    /\ UNCHANGED <<tvars, svars, lvars, cvars, nvars, bvars, kvars, uvars>>

NextCancel == NextLive \/ Cancel

SpecCancel == InitLive /\ [][NextCancel]_vars

\* C22: once the caller's context is cancelled, an operation on the socket
\* does not go through: a Receive returns a cancellation error, a Send that
\* reaches the write returns a cancellation error, and a Connect at its dial or
\* setup write ends with an error.
C22_CancelAborts ==
    [][ ctxCancelled =>
          /\ received' # received => Last(received').err = "context canceled"
          /\ (sends' # sends /\ ~Last(sends').msg.setup /\ Last(sends').err # "marshal")
                => Last(sends').err = "context canceled"
          /\ (lpc \in {"dial", "setup"} /\ lpc' # lpc) => lpc' = "failed" ]_vars

(***************************************************************************)
(* Resource names: tResourceName, tCachedContentName and the transforms    *)
(* of model names on `any` values.                                         *)
(***************************************************************************)
\* collectionIdentifier + "/" + resourceName, as segments: the empty string
\* after the slash is one empty segment.
JoinName(collection, name) == <<collection>> \o (IF name = <<>> THEN <<"">> ELSE name)

\* strings.Count(collectionIdentifier+"/"+resourceName, "/") + 1
SegmentCount(collection, name) == Len(JoinName(collection, name))

\* tResourceName without the case of a name starting with the collection on
\* the hosted backend: such a name is returned as it is.
tResourceName_NoCollectionCase(cfg, resourceName, collectionIdentifier, collectionHierarchyDepth) ==
    LET shouldPrepend ==
            /\ ~HasPrefix(resourceName, collectionIdentifier)
            /\ SegmentCount(collectionIdentifier, resourceName) = collectionHierarchyDepth
    IN  IF cfg.Backend = "hosted"
        THEN IF HasPrefix(resourceName, "projects") THEN resourceName
             ELSE IF HasPrefix(resourceName, "locations")
             THEN <<"projects", cfg.Project>> \o resourceName
             ELSE IF HasPrefix(resourceName, collectionIdentifier) THEN resourceName
             ELSE IF shouldPrepend
             THEN <<"projects", cfg.Project, "locations", cfg.Location>>
                  \o JoinName(collectionIdentifier, resourceName)
             ELSE resourceName
        ELSE IF shouldPrepend THEN JoinName(collectionIdentifier, resourceName)
             ELSE resourceName

\* tResourceName without the case of a name starting with locations/.
tResourceName_NoLocationsCase(cfg, resourceName, collectionIdentifier, collectionHierarchyDepth) ==
    LET shouldPrepend ==
            /\ ~HasPrefix(resourceName, collectionIdentifier)
            /\ SegmentCount(collectionIdentifier, resourceName) = collectionHierarchyDepth
    IN  IF cfg.Backend = "hosted"
        THEN IF HasPrefix(resourceName, "projects") THEN resourceName
             ELSE IF HasPrefix(resourceName, collectionIdentifier)
             THEN <<"projects", cfg.Project, "locations", cfg.Location>> \o resourceName
             ELSE IF shouldPrepend
             THEN <<"projects", cfg.Project, "locations", cfg.Location>>
                  \o JoinName(collectionIdentifier, resourceName)
             ELSE resourceName
        ELSE IF shouldPrepend THEN JoinName(collectionIdentifier, resourceName)
             ELSE resourceName

tResourceName(cfg, resourceName, collectionIdentifier, collectionHierarchyDepth) ==
    LET shouldPrepend ==
            /\ ~HasPrefix(resourceName, collectionIdentifier)
            /\ SegmentCount(collectionIdentifier, resourceName) = collectionHierarchyDepth
    IN  IF cfg.Backend = "hosted"
        THEN IF HasPrefix(resourceName, "projects") THEN resourceName
             ELSE IF HasPrefix(resourceName, "locations")
             THEN <<"projects", cfg.Project>> \o resourceName
             ELSE IF HasPrefix(resourceName, collectionIdentifier)
             THEN <<"projects", cfg.Project, "locations", cfg.Location>> \o resourceName
             ELSE IF shouldPrepend
             THEN <<"projects", cfg.Project, "locations", cfg.Location>>
                  \o JoinName(collectionIdentifier, resourceName)
             ELSE resourceName
        ELSE IF shouldPrepend THEN JoinName(collectionIdentifier, resourceName)
             ELSE resourceName

\* tCachedContentName: name.(string) panics on a value that is not a string;
\* the error returned is always nil.
tCachedContentName(cfg, name) ==
    IF ~name.isString THEN NameOut("tCachedContentName", TRUE, FALSE, <<>>)
    ELSE NameOut("tCachedContentName", FALSE, FALSE,
                 tResourceName(cfg, name.s, "cachedContents", 2))

\* tModel and tModelFullName on an `any` value: the type switch, then the
\* string case.
tModelAny(cfg, origin) ==
    IF ~origin.isString THEN NameOut("tModel", FALSE, TRUE, <<>>)
    ELSE LET r == tModel(cfg.Backend, origin.s)
         IN  NameOut("tModel", FALSE, r.err, r.name)
tModelFullNameAny(cfg, origin) ==
    IF ~origin.isString THEN NameOut("tModelFullName", FALSE, TRUE, <<>>)
    ELSE LET r == tModelFullName(cfg.Backend, origin.s)
         IN  NameOut("tModelFullName", FALSE, r.err, r.name)

\* The identifiers and collections the transforms are applied to.
NameStrings ==
    ModelNames \cup
    { <<"x">>, <<"cachedContents", "x">>, <<"cachedContents", "">>,
      <<"locations", Location, "cachedContents", "x">>,
      <<"projects", Project, "locations", Location, "cachedContents", "x">>,
      <<"projects", Project, "locations", Location, "publishers", "google",
        "models", "test-model">>,
      <<"tunedModels", "t", "operations", "o">>, <<"t", "operations", "o">>,
      <<"a", "b">> }
NameArgs == {StringValue(n) : n \in NameStrings} \cup {NotAString}
Collections ==
    { [collection |-> "cachedContents", depth |-> 2],
      [collection |-> "tunedModels", depth |-> 4] }

ApplyResourceName ==
    /\ nameOut = NoNameOut /\ nameArg.isString
    /\ nameOut' = NameOut("tResourceName", FALSE, FALSE,
                          tResourceName(clientConfig, nameArg.s,
                                        nameColl.collection, nameColl.depth))
    /\ UNCHANGED <<nameArg, nameColl>>
    /\ UNCHANGED <<tvars, svars, lvars, ctxCancelled, cvars, bvars, kvars, uvars>>

ApplyCachedContentName ==
    /\ nameOut = NoNameOut
    /\ nameOut' = tCachedContentName(clientConfig, nameArg)
    /\ UNCHANGED <<nameArg, nameColl>>
    /\ UNCHANGED <<tvars, svars, lvars, ctxCancelled, cvars, bvars, kvars, uvars>>

ApplyModel ==
    /\ nameOut = NoNameOut
    /\ nameOut' = tModelAny(clientConfig, nameArg)
    /\ UNCHANGED <<nameArg, nameColl>>
    /\ UNCHANGED <<tvars, svars, lvars, ctxCancelled, cvars, bvars, kvars, uvars>>

ApplyModelFullName ==
    /\ nameOut = NoNameOut
    /\ nameOut' = tModelFullNameAny(clientConfig, nameArg)
    /\ UNCHANGED <<nameArg, nameColl>>
    /\ UNCHANGED <<tvars, svars, lvars, ctxCancelled, cvars, bvars, kvars, uvars>>

\* The transform that returned a name is applied to that name, with the same
\* client, collection and depth.
Reapply ==
    /\ nameOut.fn \in {"tResourceName", "tModel", "tModelFullName"}
    /\ ~nameOut.err /\ ~nameOut.panic /\ ~nameOut.again
    /\ nameArg' = StringValue(nameOut.name)
    /\ LET out == CASE nameOut.fn = "tResourceName" ->
                         NameOut("tResourceName", FALSE, FALSE,
                                 tResourceName(clientConfig, nameOut.name,
                                               nameColl.collection, nameColl.depth))
                    [] nameOut.fn = "tModel" -> tModelAny(clientConfig, nameArg')
                    [] OTHER -> tModelFullNameAny(clientConfig, nameArg')
       IN  nameOut' = [out EXCEPT !.again = TRUE]
    /\ UNCHANGED nameColl
    /\ UNCHANGED <<tvars, svars, lvars, ctxCancelled, cvars, bvars, kvars, uvars>>

InitNames ==
    /\ TInit /\ SIdle /\ LIdle /\ ctxCancelled = FALSE /\ BIdle /\ KIdle /\ UIdle
    /\ clientConfig \in ClientConfigs /\ httpOptions = NoHTTPOptions
    /\ calls = [p \in Callers |-> NoCall]
    /\ nameArg \in NameArgs /\ nameColl \in Collections /\ nameOut = NoNameOut

NextNames ==
    \/ ApplyResourceName
    \/ ApplyCachedContentName
    \/ ApplyModel
    \/ ApplyModelFullName
    \/ Reapply

SpecNames == InitNames /\ [][NextNames]_vars

\* tResourceName was applied to an identifier starting with "<collection>/".
PrefixedApplied ==
    /\ nameOut.fn = "tResourceName"
    /\ HasPrefix(nameArg.s, nameColl.collection)

\* C25 as stated: an identifier that already starts with "<collection>/" is
\* returned unchanged by tResourceName on both backends.
C25_PrefixedUnchanged ==
    PrefixedApplied => nameOut.name = nameArg.s

\* C25: an identifier that already starts with "<collection>/" is returned
\* unchanged by tResourceName on the direct backend, and with
\* projects/<project>/locations/<location>/ put in front of it on the hosted
\* backend.
C25_PrefixedPerBackend ==
    PrefixedApplied =>
        nameOut.name =
            IF clientConfig.Backend = "direct" THEN nameArg.s
            ELSE <<"projects", Project, "locations", Location>> \o nameArg.s

C25_Witness ==
    /\ PrefixedApplied /\ clientConfig.Backend = "hosted"
    /\ nameArg.s = <<"cachedContents", "x">>
    /\ nameOut.name = <<"projects", Project, "locations", Location, "cachedContents", "x">>

\* The name starts with "<first>/".
StartsWith(name, first) == Len(name) > 1 /\ Head(name) = first
ProjectLocation == <<"projects", Project, "locations", Location>>

\* C34: the decision order of tResourceName.  shouldPrepend: the name does
\* not start with "<collection>/" and "<collection>/<name>" has the expected
\* number of segments.  Hosted backend: a name starting with projects/ is
\* unchanged; else one starting with locations/ gets projects/<project>/ in
\* front; else one starting with <collection>/ gets
\* projects/<project>/locations/<location>/ in front; else with shouldPrepend
\* the result is projects/<project>/locations/<location>/<collection>/<name>;
\* else the name is unchanged.  Direct backend: <collection>/<name> with
\* shouldPrepend, else the name unchanged.
C34_ResourceNameOrder ==
    nameOut.fn = "tResourceName" =>
        LET n == nameArg.s
            coll == nameColl.collection
            segments == 1 + (IF n = <<>> THEN 1 ELSE Len(n))
            shouldPrepend == ~StartsWith(n, coll) /\ segments = nameColl.depth
            withCollection == <<coll>> \o (IF n = <<>> THEN <<"">> ELSE n)
        IN  /\ (clientConfig.Backend = "hosted" /\ StartsWith(n, "projects"))
                  => nameOut.name = n
            /\ (clientConfig.Backend = "hosted" /\ ~StartsWith(n, "projects")
                  /\ StartsWith(n, "locations"))
                  => nameOut.name = <<"projects", Project>> \o n
            /\ (clientConfig.Backend = "hosted" /\ ~StartsWith(n, "projects")
                  /\ ~StartsWith(n, "locations") /\ StartsWith(n, coll))
                  => nameOut.name = ProjectLocation \o n
            /\ (clientConfig.Backend = "hosted" /\ ~StartsWith(n, "projects")
                  /\ ~StartsWith(n, "locations") /\ ~StartsWith(n, coll))
                  => nameOut.name = IF shouldPrepend THEN ProjectLocation \o withCollection
                                    ELSE n
            /\ clientConfig.Backend = "direct"
                  => nameOut.name = IF shouldPrepend THEN withCollection ELSE n

\* A name starting with locations/ on the hosted backend got the project in
\* front of it.
C34_Witness ==
    /\ nameOut.fn = "tResourceName" /\ clientConfig.Backend = "hosted"
    /\ nameArg.s = <<"locations", Location, "cachedContents", "x">>
    /\ nameOut.name = <<"projects", Project, "locations", Location, "cachedContents", "x">>

\* The bare name of a resource two levels below its collection, on the hosted
\* backend: the full prefix and the collection are put in front.
C34_WitnessPrepend ==
    /\ nameOut.fn = "tResourceName" /\ clientConfig.Backend = "hosted"
    /\ nameColl.collection = "tunedModels"
    /\ nameArg.s = <<"t", "operations", "o">>
    /\ nameOut.name = ProjectLocation \o <<"tunedModels", "t", "operations", "o">>

\* C35: on the hosted backend tModelFullName puts
\* projects/<project>/locations/<location>/ in front of a tModel result
\* starting with publishers/, the same and publishers/google/ in front of one
\* starting with models/, and returns one starting with projects/ unchanged,
\* so every name it returns there starts with projects/; on the direct backend
\* it returns tModel's result, which starts with models/ or tunedModels/.
C35_FullModelName ==
    (nameOut.fn = "tModelFullName" /\ ~nameOut.err) =>
        LET t == tModel(clientConfig.Backend, nameArg.s).name IN
        IF clientConfig.Backend = "hosted"
        THEN /\ StartsWith(t, "publishers") => nameOut.name = ProjectLocation \o t
             /\ StartsWith(t, "models")
                   => nameOut.name = ProjectLocation \o <<"publishers", "google">> \o t
             /\ StartsWith(t, "projects") => nameOut.name = t
             /\ StartsWith(nameOut.name, "projects")
        ELSE /\ nameOut.name = t
             /\ StartsWith(nameOut.name, "models") \/ StartsWith(nameOut.name, "tunedModels")

C35_Witness ==
    /\ nameOut.fn = "tModelFullName" /\ clientConfig.Backend = "hosted"
    /\ nameArg = StringValue(<<"models", "test-model">>)
    /\ nameOut.name = ProjectLocation \o <<"publishers", "google", "models", "test-model">>

\* C37: the name transforms are idempotent on both backends: tModel,
\* tModelFullName or tResourceName applied to a name it returned, with the same
\* backend, project, location, collection and depth, returns that name.
C37_Idempotent ==
    nameOut.again =>
        (~nameOut.err /\ ~nameOut.panic /\ nameOut.name = nameArg.s)

\* tModelFullName applied on the hosted backend to the full name it had made
\* of "meta/llama".
C37_Witness ==
    /\ nameOut.again /\ nameOut.fn = "tModelFullName"
    /\ clientConfig.Backend = "hosted"
    /\ nameOut.name = ProjectLocation \o <<"publishers", "meta", "models", "llama">>
    /\ nameArg.s = nameOut.name

\* Go's strings.SplitN(model, "/", 2) and the formats of tModel, on segments.
Vendor(name) == name[1]
Rest(name) == Tail(name)

\* C26: tModel on a non-empty string.  Hosted backend: the identity on names
\* starting with projects/, models/ or publishers/; another name with a slash
\* becomes publishers/<vendor>/models/<rest>, split at its first slash; a bare
\* name becomes publishers/google/models/<name>.  Direct backend: the identity
\* on names starting with models/ or tunedModels/; every other name becomes
\* models/<name>.
C26_ModelName ==
    (nameOut.fn = "tModel" /\ nameArg.isString /\ nameArg.s # <<>>) =>
        LET n == nameArg.s IN
        /\ ~nameOut.err /\ ~nameOut.panic
        /\ nameOut.name =
             IF clientConfig.Backend = "hosted"
             THEN CASE n[1] \in {"projects", "models", "publishers"} /\ Len(n) > 1 -> n
                    [] OTHER ->
                       IF Len(n) > 1
                       THEN <<"publishers", Vendor(n), "models">> \o Rest(n)
                       ELSE <<"publishers", "google", "models", n[1]>>
             ELSE CASE n[1] \in {"models", "tunedModels"} /\ Len(n) > 1 -> n
                    [] OTHER -> <<"models">> \o n

C26_Witness ==
    /\ nameOut.fn = "tModel" /\ clientConfig.Backend = "hosted"
    /\ nameArg = StringValue(<<"meta", "llama">>)
    /\ nameOut.name = <<"publishers", "meta", "models", "llama">>

\* The identifier is the empty string or not a string.
InvalidIdentifier == ~nameArg.isString \/ nameArg.s = <<>>

\* C27: tCachedContentName, tModel and tModelFullName return an error and no
\* name when the identifier is the empty string or is not a string.
C27_InvalidIdentifierRejected ==
    (nameOut.fn \in {"tCachedContentName", "tModel", "tModelFullName"}
       /\ InvalidIdentifier)
        => (~nameOut.panic /\ nameOut.err /\ nameOut.name = <<>>)

\* The two transforms of model names do reject such identifiers.
ModelTransformsReject ==
    (nameOut.fn \in {"tModel", "tModelFullName"} /\ InvalidIdentifier)
        => (~nameOut.panic /\ nameOut.err /\ nameOut.name = <<>>)

(***************************************************************************)
(* Base URLs: SetDefaultBaseURLs, GetDefaultBaseURLs, GetBaseURL.  The two *)
(* package variables are written and read one statement at a time; a       *)
(* SetDefaultBaseURLs call and a GetBaseURL call may overlap.              *)
(***************************************************************************)
MaxSets == 2
GeminiURLs == {Nil, Ptr("https://gemini-1.test"), Ptr("https://gemini-2.test")}
VertexURLs == {Nil, Ptr("https://vertex-1.test"), Ptr("https://vertex-2.test")}
BaseURLParameters ==
    {NilParams} \cup [nil : {FALSE}, GeminiURL : GeminiURLs, VertexURL : VertexURLs]
Environments ==
    { [n \in EnvNames |-> IF n \in set THEN Ptr("https://env.test/" \o n) ELSE Nil]
        : set \in SUBSET EnvNames }
\* httpOptions: nil, or a record with BaseURL empty or set.
OptionBaseURLs == {"", "https://options.test"}

\* SetDefaultBaseURLs(baseURLParams) is entered; a nil argument returns at once.
SetDefaultBaseURLs ==
    /\ setter.pc = "idle" /\ setter.calls < MaxSets
    /\ \E params \in BaseURLParameters :
         setter' = [pc |-> IF params.nil THEN "idle" ELSE "gemini",
                    params |-> params, calls |-> setter.calls + 1,
                    installed |-> IF params.nil THEN setter.installed
                                  ELSE setter.installed \cup {params}]
    /\ UNCHANGED <<defaultBaseGeminiURL, defaultBaseVertexURL, environ, getter>>
    /\ UNCHANGED <<tvars, svars, lvars, ctxCancelled, cvars, nvars, kvars, uvars>>

\* GetBaseURL was entered: an assignment from now on is one the call may or
\* may not have seen.
GetterEntered == getter.pc # "idle"

\* defaultBaseGeminiURL = baseURLParams.GeminiURL
setGeminiURL ==
    /\ setter.pc = "gemini"
    /\ defaultBaseGeminiURL' = setter.params.GeminiURL
    /\ setter' = [setter EXCEPT !.pc = "vertex"]
    /\ getter' = [getter EXCEPT !.disturbed = @ \/ GetterEntered]
    /\ UNCHANGED <<defaultBaseVertexURL, environ>>
    /\ UNCHANGED <<tvars, svars, lvars, ctxCancelled, cvars, nvars, kvars, uvars>>

\* defaultBaseVertexURL = baseURLParams.VertexURL
setVertexURL ==
    /\ setter.pc = "vertex"
    /\ defaultBaseVertexURL' = setter.params.VertexURL
    /\ setter' = [setter EXCEPT !.pc = "idle"]
    /\ getter' = [getter EXCEPT !.disturbed = @ \/ GetterEntered]
    /\ UNCHANGED <<defaultBaseGeminiURL, environ>>
    /\ UNCHANGED <<tvars, svars, lvars, ctxCancelled, cvars, nvars, kvars, uvars>>

\* GetBaseURL(vertexai, httpOptions) is entered: a non-empty BaseURL of the
\* options is returned at once.
GetBaseURL ==
    /\ getter.pc = "idle"
    /\ \E vertexai \in BOOLEAN, nilOptions \in BOOLEAN, base \in OptionBaseURLs :
         /\ nilOptions => base = ""
         /\ getter' = IF ~nilOptions /\ base # ""
                      THEN [getter EXCEPT !.pc = "done", !.vertexai = vertexai,
                                          !.nilOptions = nilOptions, !.BaseURL = base,
                                          !.result = Ptr(base)]
                      ELSE [getter EXCEPT !.pc = "readGemini", !.vertexai = vertexai,
                                          !.nilOptions = nilOptions, !.BaseURL = base]
    /\ UNCHANGED <<defaultBaseGeminiURL, defaultBaseVertexURL, environ, setter>>
    /\ UNCHANGED <<tvars, svars, lvars, ctxCancelled, cvars, nvars, kvars, uvars>>

\* GetDefaultBaseURLs: GeminiURL: defaultBaseGeminiURL
getGeminiURL ==
    /\ getter.pc = "readGemini"
    /\ getter' = [getter EXCEPT !.pc = "readVertex",
                                !.baseURLs.GeminiURL = defaultBaseGeminiURL]
    /\ UNCHANGED <<defaultBaseGeminiURL, defaultBaseVertexURL, environ, setter>>
    /\ UNCHANGED <<tvars, svars, lvars, ctxCancelled, cvars, nvars, kvars, uvars>>

\* GetDefaultBaseURLs: VertexURL: defaultBaseVertexURL
getVertexURL ==
    /\ getter.pc = "readVertex"
    /\ getter' = [getter EXCEPT !.pc = "resolve", !.baseURLs.nil = FALSE,
                                !.baseURLs.VertexURL = defaultBaseVertexURL]
    /\ UNCHANGED <<defaultBaseGeminiURL, defaultBaseVertexURL, environ, setter>>
    /\ UNCHANGED <<tvars, svars, lvars, ctxCancelled, cvars, nvars, kvars, uvars>>

\* The default and the environment variable of the selected backend.
SelectedDefault(g) == IF g.vertexai THEN g.baseURLs.VertexURL ELSE g.baseURLs.GeminiURL
SelectedEnv(g) == IF g.vertexai THEN "GOOGLE_VERTEX_BASE_URL" ELSE "GOOGLE_GEMINI_BASE_URL"

\* The rest of GetBaseURL with the environment looked up before the default.
resolveBaseURL_EnvFirst ==
    /\ getter.pc = "resolve"
    /\ getter' = IF environ[SelectedEnv(getter)] # Nil
                 THEN [getter EXCEPT !.pc = "done", !.looked = {SelectedEnv(getter)},
                                     !.result = environ[SelectedEnv(getter)]]
                 ELSE [getter EXCEPT !.pc = "done", !.looked = {SelectedEnv(getter)},
                                     !.result = SelectedDefault(getter)]
    /\ UNCHANGED <<defaultBaseGeminiURL, defaultBaseVertexURL, environ, setter>>
    /\ UNCHANGED <<tvars, svars, lvars, ctxCancelled, cvars, nvars, kvars, uvars>>

\* The rest of GetBaseURL: the default of the backend, else os.LookupEnv of
\* the backend's variable, else nil.
resolveBaseURL ==
    /\ getter.pc = "resolve"
    /\ getter' = IF SelectedDefault(getter) # Nil
                 THEN [getter EXCEPT !.pc = "done", !.result = SelectedDefault(getter)]
                 ELSE [getter EXCEPT !.pc = "done", !.looked = {SelectedEnv(getter)},
                                     !.result = environ[SelectedEnv(getter)]]
    /\ UNCHANGED <<defaultBaseGeminiURL, defaultBaseVertexURL, environ, setter>>
    /\ UNCHANGED <<tvars, svars, lvars, ctxCancelled, cvars, nvars, kvars, uvars>>

InitBaseURL ==
    /\ TInit /\ SIdle /\ LIdle /\ ctxCancelled = FALSE /\ CIdle /\ NIdle /\ KIdle /\ UIdle
    /\ BLoaded /\ environ \in Environments

NextBaseURL ==
    \/ SetDefaultBaseURLs
    \/ setGeminiURL
    \/ setVertexURL
    \/ GetBaseURL
    \/ getGeminiURL
    \/ getVertexURL
    \/ resolveBaseURL

SpecBaseURL == InitBaseURL /\ [][NextBaseURL]_vars

\* The programmatic default and the environment variable GetBaseURL is to use.
OwnDefault == IF getter.vertexai THEN defaultBaseVertexURL ELSE defaultBaseGeminiURL
OwnEnv == environ[SelectedEnv(getter)]

PairReturned == ~getter.baseURLs.nil

\* C33: a pair returned by GetDefaultBaseURLs while SetDefaultBaseURLs calls
\* run is the pair installed by one of these calls or the initial (nil, nil)
\* pair, never the Gemini URL of one with the Vertex URL of another.
C33_PairsNotTorn ==
    PairReturned =>
        \/ getter.baseURLs.GeminiURL = Nil /\ getter.baseURLs.VertexURL = Nil
        \/ getter.baseURLs \in setter.installed

\* What the code keeps of C33: a call with a nil argument assigns nothing,
\* and when a call with a non-nil argument returns, both defaults are those of
\* its argument, a nil field clearing the default.
SetReplacesBoth ==
    [][ /\ (setter'.calls # setter.calls /\ setter'.params.nil) =>
              UNCHANGED <<defaultBaseGeminiURL, defaultBaseVertexURL>>
        /\ (setter.pc = "vertex" /\ setter'.pc = "idle") =>
              /\ defaultBaseGeminiURL' = setter.params.GeminiURL
              /\ defaultBaseVertexURL' = setter.params.VertexURL ]_vars

MaxInput == 5
Bytes == {CR, LF, "a"}
ByteStrings == UNION {[1..k -> Bytes] : k \in 0..MaxInput}

\* buf[start:end]
Buffer(k) == SubSeq(k.input, k.consumed + 1, k.read)

\* One pass of the Scan loop: scan is called when the buffer holds bytes or
\* the input has ended; a token is handed out and its bytes are consumed; with
\* no token the loop reads on, or stops when the input has ended.
ScannerSplit ==
    /\ scanner.pc = "scan"
    /\ LET data == Buffer(scanner)
           r == scan(data, scanner.atEOF)
       IN  IF (data # <<>> \/ scanner.atEOF) /\ ~r.token.nil
           THEN scanner' = [scanner EXCEPT !.consumed = @ + r.advance,
                                           !.tokens = Append(@, r.token.bytes)]
           ELSE IF scanner.atEOF
           THEN scanner' = [scanner EXCEPT !.pc = "done"]
           ELSE scanner' = [scanner EXCEPT !.pc = "read"]
    /\ UNCHANGED <<tvars, svars, lvars, ctxCancelled, cvars, nvars, bvars, uvars>>

\* The reader hands over some of the remaining bytes, or reports the end.
ScannerRead ==
    /\ scanner.pc = "read"
    /\ IF scanner.read < Len(scanner.input)
       THEN \E n \in 1..(Len(scanner.input) - scanner.read) :
               scanner' = [scanner EXCEPT !.read = @ + n, !.pc = "scan"]
       ELSE scanner' = [scanner EXCEPT !.atEOF = TRUE, !.pc = "scan"]
    /\ UNCHANGED <<tvars, svars, lvars, ctxCancelled, cvars, nvars, bvars, uvars>>

InitScan ==
    /\ TInit /\ SIdle /\ LIdle /\ ctxCancelled = FALSE /\ CIdle /\ NIdle /\ BIdle
    /\ UIdle
    /\ \E input \in ByteStrings : scanner = NewScanner(input)

NextScan ==
    \/ ScannerSplit
    \/ ScannerRead

SpecScan == InitScan /\ [][NextScan]_vars

\* The loop runs: each Read returns and each call of scan returns.
SpecScanFair == SpecScan /\ WF_vars(NextScan)

DelimLF == <<LF, LF>>
DelimCRLF == <<CR, LF, CR, LF>>
HasDelimiter(data) == Index(data, DelimLF) >= 0 \/ Index(data, DelimCRLF) >= 0

\* The delimiter that starts first in data: where it starts and its length.
Earliest(data) ==
    LET i == Index(data, DelimLF)
        j == Index(data, DelimCRLF)
    IN  IF j >= 0 /\ (i < 0 \/ j < i) THEN [at |-> j, len |-> 4]
        ELSE [at |-> i, len |-> 2]

\* C29: for a buffer holding a delimiter, scan returns the bytes before the
\* delimiter that starts first (\n\n or \r\n\r\n), one trailing \r stripped,
\* and advances exactly past that delimiter.
C29_EarliestDelimiter ==
    LET data == Buffer(scanner)
        r == scan(data, scanner.atEOF)
        e == Earliest(data)
    IN  HasDelimiter(data) =>
            /\ r.token = Token(dropCR(Take(data, e.at)))
            /\ r.advance = e.at + e.len

\* The same for buffers in which no \r\n\r\n comes before the first \n\n.
EarliestWhenLFFirst ==
    LET data == Buffer(scanner)
        r == scan(data, scanner.atEOF)
        e == Earliest(data)
    IN  (HasDelimiter(data) /\ (e.len = 2 \/ Index(data, DelimLF) < 0)) =>
            /\ r.token = Token(dropCR(Take(data, e.at)))
            /\ r.advance = e.at + e.len

\* scan on a buffer without a delimiter.
NoDelimiterCases ==
    LET data == Buffer(scanner)
        r == scan(data, scanner.atEOF)
    IN  ~HasDelimiter(data) =>
            /\ ~scanner.atEOF => (r.advance = 0 /\ r.token.nil)
            /\ (scanner.atEOF /\ data # <<>>) =>
                  (r.advance = Len(data) /\ r.token = Token(dropCR(data)))
            /\ (scanner.atEOF /\ data = <<>>) => (r.advance = 0 /\ r.token.nil)

\* The bytes consumed are bytes read, and at the end they are all the bytes.
ConsumedAll ==
    /\ scanner.consumed <= scanner.read /\ scanner.read <= Len(scanner.input)
    /\ scanner.pc = "done" =>
          (scanner.atEOF /\ scanner.consumed = Len(scanner.input))

\* C30: on a buffer without a delimiter scan asks for more bytes while the
\* input has not ended, emits all the bytes left (one trailing \r stripped)
\* and consumes them when it has ended, and emits nothing when none are left;
\* over every finite input the scan ends, and has then consumed every byte.
C30_ScanTerminates ==
    /\ [](NoDelimiterCases /\ ConsumedAll)
    /\ <>(scanner.pc = "done")

\* The input "a\r" read in two pieces: the scan asked for more twice, then
\* emitted "a" as the final token, consumed both bytes and ended.
C30_Witness ==
    /\ scanner.pc = "done" /\ scanner.input = <<"a", CR>>
    /\ scanner.tokens = << <<"a">> >> /\ scanner.consumed = 2

(***************************************************************************)
(* createAPIURL over paths with and without the version segment.           *)
(***************************************************************************)
APIVersion == "test-api-version"
URLPaths ==
    { <<"models", "m:generateContent">>, <<"cachedContents", "x">>, <<"tunedModels">>,
      <<"publishers", "google", "models">>,
      <<"publishers", "google", "models", "m">>,
      <<"projects", Project, "locations", Location, "cachedContents", "x">>,
      <<APIVersion, "models", "m">>,
      <<"upload", APIVersion, "files">>,
      <<"files", APIVersion>> }
Methods == {"GET", "POST"}

ApplyCreateAPIURL ==
    /\ urlCall.url = <<>>
    /\ urlCall' = [urlCall EXCEPT !.url =
                     createAPIURL(clientConfig, urlCall.suffix, urlCall.method, httpOptions)]
    /\ UNCHANGED <<tvars, svars, lvars, ctxCancelled, cvars, nvars, bvars, kvars>>

InitURL ==
    /\ TInit /\ SIdle /\ LIdle /\ ctxCancelled = FALSE /\ NIdle /\ BIdle /\ KIdle
    /\ clientConfig \in ClientConfigs /\ httpOptions \in HTTPOptionsSet
    /\ calls = [p \in Callers |-> NoCall]
    /\ \E suffix \in URLPaths, method \in Methods : urlCall = NewURLCall(suffix, method)

NextURL == ApplyCreateAPIURL

SpecURL == InitURL /\ [][NextURL]_vars

\* How often the segment seg occurs in path.
Occurrences(path, seg) == Cardinality({i \in 1..Len(path) : path[i] = seg})

\* The URL of the hosted backend is as C36 states it.
HostedURLAsClaimed ==
    LET p == urlCall.suffix
        listing == /\ urlCall.method = "GET" /\ Len(p) >= 3
                   /\ SubSeq(p, 1, 3) = <<"publishers", "google", "models">>
    IN  urlCall.url = <<httpOptions.BaseURL, httpOptions.APIVersion>>
                       \o (IF StartsWith(p, "projects") \/ listing THEN p
                           ELSE ProjectLocation \o p)

\* C36: createAPIURL composes the URL per backend.  Hosted:
\* <base>/<version>/<path>, the path with
\* projects/<project>/locations/<location>/ in front unless it starts with
\* projects/ or the method is GET and it starts with publishers/google/models.
\* Direct: <base>/<path> with the version segment exactly once: put in front
\* when the path does not carry it, not put in again when the path carries it,
\* wherever it stands.
C36_URLComposition ==
    urlCall.url # <<>> =>
        IF clientConfig.Backend = "hosted" THEN HostedURLAsClaimed
        ELSE LET p == urlCall.suffix
                 v == httpOptions.APIVersion
             IN  /\ urlCall.url = <<httpOptions.BaseURL>>
                                   \o (IF Occurrences(p, v) > 0 THEN p ELSE <<v>> \o p)
                 /\ Occurrences(Tail(urlCall.url), v) = 1

\* What the code keeps of C36: the hosted URL, and the direct URL when the
\* version segment is missing from the path or stands between two slashes.
URLWhenVersionInside ==
    urlCall.url # <<>> =>
        IF clientConfig.Backend = "hosted" THEN HostedURLAsClaimed
        ELSE LET p == urlCall.suffix
                 v == httpOptions.APIVersion
                 inside == \E i \in 2..(Len(p) - 1) : p[i] = v
             IN  (inside \/ Occurrences(p, v) = 0) =>
                     /\ urlCall.url = <<httpOptions.BaseURL>>
                                       \o (IF inside THEN p ELSE <<v>> \o p)
                     /\ Occurrences(Tail(urlCall.url), v) = 1

(***************************************************************************)
(* The error of a non-2xx response.                                        *)
(***************************************************************************)
ErrorBody == Body("object", {<<"error", "object">>})
NonOKReturned ==
    /\ Returned /\ op \in {"sendRequest", "sendStreamRequest"}
    /\ resp # NoResp /\ ~httpStatusOk(resp) /\ resp.readOK

C24_WitnessEmptyBody ==
    /\ NonOKReturned /\ op = "sendStreamRequest"
    /\ resp.status = 500 /\ BodyLen0(resp.body)
    /\ ret.err = "APIError" /\ ret.code = 500
    /\ ret.status = "500 Internal Server Error"

(***************************************************************************)
(* Concurrent calls on one client.  Each caller runs sendRequest,          *)
(* sendStreamRequest or uploadFile (a single chunk) on the same apiClient  *)
(* and with the same HTTPOptions record; the steps of the callers          *)
(* interleave.                                                             *)
(***************************************************************************)
\* A caller enters f; cfg0 and opts0 record the client's records as they
\* stand at this moment.
callStart(p) ==
    /\ calls[p].pc = "idle"
    /\ \E f \in CallOps :
         calls' = [calls EXCEPT ![p] = [@ EXCEPT !.pc = "build", !.f = f,
                                                 !.cfg0 = clientConfig,
                                                 !.opts0 = httpOptions]]
    /\ UNCHANGED <<clientConfig, httpOptions>>
    /\ UNCHANGED <<tvars, svars, lvars, ctxCancelled, nvars, bvars, kvars, uvars>>

\* uploadFile setting its upload headers on httpOptions.Headers, the record
\* the callers share, instead of on the request's own header.
callBuild_SetsSharedHeaders(p) ==
    /\ calls[p].pc = "build"
    /\ LET req == NewRequest(clientConfig, httpOptions, calls[p].f) IN
       /\ calls' = [calls EXCEPT ![p] = [@ EXCEPT !.pc = "do", !.req = req]]
       /\ httpOptions' = IF calls[p].f = "uploadFile"
                         THEN [httpOptions EXCEPT !.Headers = req.header]
                         ELSE httpOptions
    /\ UNCHANGED clientConfig
    /\ UNCHANGED <<tvars, svars, lvars, ctxCancelled, nvars, bvars, kvars, uvars>>

\* buildRequest, or the request construction of uploadFile: reads
\* ac.clientConfig and httpOptions, writes the new request only.
callBuild(p) ==
    /\ calls[p].pc = "build"
    /\ calls' = [calls EXCEPT ![p] =
                   [@ EXCEPT !.pc = "do",
                             !.req = NewRequest(clientConfig, httpOptions, calls[p].f)]]
    /\ UNCHANGED <<clientConfig, httpOptions>>
    /\ UNCHANGED <<tvars, svars, lvars, ctxCancelled, nvars, bvars, kvars, uvars>>

\* doRequest and the deserialization of the response.
callDo(p) ==
    /\ calls[p].pc = "do"
    /\ \E r \in CallResponses \cup {NoResp}, mapOK \in BOOLEAN :
         /\ (mapOK = FALSE) => (calls[p].f = "uploadFile" /\ r # NoResp)
         /\ calls' = [calls EXCEPT ![p] =
                        [@ EXCEPT !.pc = "done", !.resp = r, !.mapOK = mapOK,
                                  !.ret = ResultOf(calls[p].f, r, mapOK)]]
    /\ UNCHANGED <<clientConfig, httpOptions>>
    /\ UNCHANGED <<tvars, svars, lvars, ctxCancelled, nvars, bvars, kvars, uvars>>

InitConcurrent ==
    /\ TInit /\ SIdle /\ LIdle /\ ctxCancelled = FALSE /\ NIdle /\ BIdle /\ KIdle /\ UIdle
    /\ clientConfig \in ClientConfigs /\ httpOptions \in HTTPOptionsSet
    /\ calls = [p \in Callers |-> NoCall]

NextConcurrent ==
    \/ \E p \in Callers : callStart(p)
    \/ \E p \in Callers : callBuild(p)
    \/ \E p \in Callers : callDo(p)

SpecConcurrent == InitConcurrent /\ [][NextConcurrent]_vars

\* C23: concurrent calls on one client do not interfere: the ClientConfig and
\* the HTTPOptions record stay as every running or finished call found them,
\* and each call's request and result are those of the call running alone
\* with these records and the response it was given.
C23_NoInterference ==
    \A p \in Callers :
        /\ calls[p].pc # "idle" =>
              /\ clientConfig = calls[p].cfg0
              /\ httpOptions = calls[p].opts0
        /\ calls[p].pc \in {"do", "done"} =>
              calls[p].req = NewRequest(calls[p].cfg0, calls[p].opts0, calls[p].f)
        /\ calls[p].pc = "done" =>
              calls[p].ret = ResultOf(calls[p].f, calls[p].resp, calls[p].mapOK)

\* Two calls overlap: an uploadFile has built its request and not returned
\* yet while a sendRequest on the same client returned a payload.
C23_Witness ==
    /\ calls[1].pc = "do" /\ calls[2].pc = "done"
    /\ calls[1].f = "uploadFile"
    /\ calls[1].req.header["X-Goog-Upload-Command"] = <<"upload, finalize">>
    /\ calls[2].f = "sendRequest" /\ calls[2].ret.kind = "payload"
    /\ calls[2].req.header["test-header"] = <<"test-value">>
    /\ calls[2].req.header["X-Goog-Upload-Command"] = <<>>

====
